---- MODULE Spec2Model ----
(***************************************************************************)
(* A model of the TLE record parser of tardis (src/src/tle.rs).            *)
(*                                                                         *)
(* TLE::from_lines is modelled as a state machine: one action per          *)
(* validation or decoding step of the function, taken in the order of the  *)
(* source.  A byte is a one-character string; the token BadByte stands for *)
(* a byte (0xFF) that is not valid UTF-8.  Floating point values are       *)
(* modelled as exact decimals (sign, digit string, number of fractional    *)
(* digits); the rounding of f64 is outside the model.                      *)
(***************************************************************************)
EXTENDS Integers, Sequences, FiniteSets, TLC

(***************************************************************************)
(* Bytes and slices                                                        *)
(***************************************************************************)
DigitChars == <<"0","1","2","3","4","5","6","7","8","9">>

IsDigit(c) == \E i \in 1..10 : DigitChars[i] = c

DigitVal(c) == (CHOOSE i \in 1..10 : DigitChars[i] = c) - 1

BadByte == "xFF"

\* char::is_whitespace over the bytes of the model's alphabet
IsSpace(c) == c = " "

\* Rust's b[lo..hi] (0-indexed, half-open); the caller checks InRange first
Slice(b, lo, hi) == SubSeq(b, lo + 1, hi)

\* b[lo..hi] does not abort with an out-of-range slice access
InRange(b, lo, hi) == lo <= hi /\ hi <= Len(b)

Ok(v) == [kind |-> "Ok", val |-> <<v>>, msg |-> ""]

Err(m) == [kind |-> "Err", val |-> <<>>, msg |-> m]

Panic(m) == [kind |-> "Panic", val |-> <<>>, msg |-> m]

IsOk(r) == r.kind = "Ok"

Val(r) == r.val[1]

\* String::from_utf8 succeeds
IsUtf8(b) == \A i \in 1..Len(b) : b[i] # BadByte

RECURSIVE TrimStart(_)
TrimStart(s) ==
    IF s # <<>> /\ IsSpace(Head(s)) THEN TrimStart(Tail(s)) ELSE s

RECURSIVE TrimEnd(_)
TrimEnd(s) ==
    IF s # <<>> /\ IsSpace(s[Len(s)]) THEN TrimEnd(SubSeq(s, 1, Len(s) - 1))
    ELSE s

AllDigits(s) == \A i \in 1..Len(s) : IsDigit(s[i])

RECURSIVE DigitsToInt(_)
DigitsToInt(s) ==
    IF s = <<>> THEN 0
    ELSE 10 * DigitsToInt(SubSeq(s, 1, Len(s) - 1)) + DigitVal(s[Len(s)])

(***************************************************************************)
(* Exact decimals: the value is (-1)^neg * ds * 10^(-sc), ds a digit       *)
(* string read as an integer.  The canonical form has no leading zero in   *)
(* ds and no trailing zero while sc > 0; zero is [FALSE, <<>>, 0].         *)
(***************************************************************************)
RECURSIVE StripLeadingZeros(_)
StripLeadingZeros(ds) ==
    IF ds # <<>> /\ Head(ds) = 0 THEN StripLeadingZeros(Tail(ds)) ELSE ds

RECURSIVE StripTrailing(_, _)
StripTrailing(ds, sc) ==
    IF sc > 0 /\ ds # <<>> /\ ds[Len(ds)] = 0
    THEN StripTrailing(SubSeq(ds, 1, Len(ds) - 1), sc - 1)
    ELSE <<ds, sc>>

Zeros(n) == [i \in 1..n |-> 0]

Dec(neg, ds, sc) ==
    LET lead == StripLeadingZeros(ds)
        st == StripTrailing(lead, sc)
    IN  IF lead = <<>> THEN [neg |-> FALSE, ds |-> <<>>, sc |-> 0]
        ELSE [neg |-> neg, ds |-> st[1], sc |-> st[2]]

\* d * 10^e
Scale10(d, e) ==
    IF d.sc - e >= 0 THEN Dec(d.neg, d.ds, d.sc - e)
    ELSE Dec(d.neg, d.ds \o Zeros(e - d.sc), 0)

RECURSIVE IntDigits(_)
IntDigits(n) == IF n = 0 THEN <<>> ELSE IntDigits(n \div 10) \o <<n % 10>>

\* an i32 as a decimal (n as f64)
DecOfInt(n) == IF n < 0 THEN Dec(TRUE, IntDigits(-n), 0) ELSE Dec(FALSE, IntDigits(n), 0)

\* the digits before and after the decimal point
IntPart(d) == IF Len(d.ds) > d.sc THEN SubSeq(d.ds, 1, Len(d.ds) - d.sc) ELSE <<>>

FracPart(d) ==
    IF Len(d.ds) >= d.sc THEN SubSeq(d.ds, Len(d.ds) - d.sc + 1, Len(d.ds))
    ELSE Zeros(d.sc - Len(d.ds)) \o d.ds

CharsToDigits(s) == [i \in 1..Len(s) |-> DigitVal(s[i])]

\* a string constant as a sequence of one-character strings
Chars(str) == [i \in 1..Len(str) |-> SubSeq(str, i, i)]

RECURSIVE Concat(_)
Concat(s) == IF s = <<>> THEN "" ELSE Head(s) \o Concat(Tail(s))

\* the position of the first "." of s, or 0
FirstDot(s) ==
    IF \E i \in 1..Len(s) : s[i] = "." THEN CHOOSE i \in 1..Len(s) :
        s[i] = "." /\ \A j \in 1..(i - 1) : s[j] # "."
    ELSE 0

(***************************************************************************)
(* str::parse::<i32>: an optional sign, then one or more digits.  Every    *)
(* caller passes at most 7 bytes, so the overflow branch is taken at 10    *)
(* significant digits.                                                     *)
(***************************************************************************)
ParseI32(s) ==
    IF s = <<>> THEN Err("cannot parse integer from empty string")
    ELSE LET signed == Head(s) \in {"+", "-"}
             digits == IF signed THEN Tail(s) ELSE s
         IN  IF digits = <<>> \/ ~AllDigits(digits)
             THEN Err("invalid digit found in string")
             ELSE IF Len(StripLeadingZeros(CharsToDigits(digits))) > 9
             THEN Err("number too large to fit in target type")
             ELSE IF Head(s) = "-" THEN Ok(0 - DigitsToInt(digits))
             ELSE Ok(DigitsToInt(digits))

(***************************************************************************)
(* str::parse::<f64> over the alphabet of the model (digits, signs, ".",   *)
(* blank and other non-numeric bytes; no exponent, "inf" or "nan" forms):  *)
(* an optional sign, digits, an optional "." and digits, at least one digit*)
(***************************************************************************)
ParseF64(s) ==
    IF s = <<>> THEN Err("cannot parse float from empty string")
    ELSE LET signed == Head(s) \in {"+", "-"}
             body == IF signed THEN Tail(s) ELSE s
             dot == FirstDot(body)
             ip == IF dot = 0 THEN body ELSE SubSeq(body, 1, dot - 1)
             fp == IF dot = 0 THEN <<>> ELSE SubSeq(body, dot + 1, Len(body))
         IN  IF AllDigits(ip) /\ AllDigits(fp) /\ Len(ip) + Len(fp) >= 1
             THEN Ok(Dec(Head(s) = "-", CharsToDigits(ip \o fp), Len(fp)))
             ELSE Err("invalid float literal")

parse_string(bytes) ==
    IF ~IsUtf8(bytes) THEN Err("Cannot parse String invalid utf-8 sequence")
    ELSE Ok(TrimEnd(bytes))

parse_number(bytes) ==
    IF ~IsUtf8(bytes) THEN Err("invalid utf-8 sequence")
    ELSE ParseI32(TrimStart(bytes))

parse_float(bytes) ==
    IF ~IsUtf8(bytes) THEN Err("invalid utf-8 sequence")
    ELSE ParseF64(TrimStart(bytes))

\* trim_start_matches(|c| c.is_whitespace() || c == '-' || c == '.')
RECURSIVE TrimStartSignDot(_)
TrimStartSignDot(s) ==
    IF s # <<>> /\ (IsSpace(Head(s)) \/ Head(s) = "-" \/ Head(s) = ".")
    THEN TrimStartSignDot(Tail(s)) ELSE s

parse_number_i(bytes) ==
    IF bytes = <<>> THEN Panic("index out of bounds")
    ELSE LET number == IF bytes[1] = "-" THEN Chars("-0.") ELSE Chars("0.")
         IN  IF ~IsUtf8(bytes) THEN Err("invalid utf-8 sequence")
             ELSE ParseF64(number \o TrimStartSignDot(bytes))

parse_pow_10(bytes) ==
    IF Len(bytes) < 2 THEN Panic("attempt to subtract with overflow")
    ELSE LET base == parse_number_i(Slice(bytes, 0, Len(bytes) - 2))
             exp == parse_number(Slice(bytes, Len(bytes) - 2, Len(bytes)))
         IN  IF ~IsOk(base) THEN base
             ELSE IF ~IsOk(exp) THEN exp
             ELSE Ok(Scale10(Val(base), Val(exp)))

\* a match whose default arm is Unclassified
string_to_class_default(class) ==
    IF class = <<"C">> THEN Ok("Classified")
    ELSE IF class = <<"S">> THEN Ok("Secret")
    ELSE Ok("Unclassified")

string_to_class(class) ==
    IF class = <<"U">> THEN Ok("Unclassified")
    ELSE IF class = <<"C">> THEN Ok("Classified")
    ELSE IF class = <<"S">> THEN Ok("Secret")
    ELSE Err("Invalid class string " \o Concat(class))

\* the casts n as u8, n as u16 of an i32
AsU8(n) == n % 256

AsU16(n) == n % 65536

\* n as u32 of an i32, as the two 16-bit halves of the result
AsU32(n) == [hi |-> (n \div 65536) % 65536, lo |-> n % 65536]

parse_designator(designator) ==
    IF ~InRange(designator, 0, 8) THEN Panic("range end index out of range")
    ELSE LET launch_year == parse_number(Slice(designator, 0, 2))
             launch_number == parse_number(Slice(designator, 2, 5))
             launch_piece == parse_string(Slice(designator, 5, 8))
         IN  IF ~IsOk(launch_year) THEN launch_year
             ELSE IF ~IsOk(launch_number) THEN launch_number
             ELSE IF ~IsOk(launch_piece) THEN launch_piece
             ELSE Ok([launch_year |-> AsU8(Val(launch_year)),
                      launch_number |-> AsU16(Val(launch_number)),
                      launch_piece |-> Val(launch_piece)])

(***************************************************************************)
(* Calendar arithmetic of chrono, as parse_date uses it: a date is a year  *)
(* and a 1-based ordinal day in the proleptic Gregorian calendar.          *)
(***************************************************************************)
RECURSIVE IntOfDigits(_)
IntOfDigits(ds) ==
    IF ds = <<>> THEN 0
    ELSE 10 * IntOfDigits(SubSeq(ds, 1, Len(ds) - 1)) + ds[Len(ds)]

\* ds * c for a digit string ds and a small factor c, as a digit string
RECURSIVE MulCarry(_, _, _)
MulCarry(ds, c, carry) ==
    IF ds = <<>> THEN IntDigits(carry)
    ELSE LET t == ds[Len(ds)] * c + carry
         IN  MulCarry(SubSeq(ds, 1, Len(ds) - 1), c, t \div 10) \o <<t % 10>>

\* a >= b for digit strings without leading zeros
RECURSIVE DigitsGE(_, _)
DigitsGE(a, b) ==
    IF Len(a) # Len(b) THEN Len(a) > Len(b)
    ELSE IF a = <<>> THEN TRUE
    ELSE IF Head(a) # Head(b) THEN Head(a) > Head(b)
    ELSE DigitsGE(Tail(a), Tail(b))

IsLeap(y) == y % 4 = 0 /\ (y % 100 # 0 \/ y % 400 = 0)

DaysIn(y) == IF IsLeap(y) THEN 366 ELSE 365

\* the days from 1 January of year a to 1 January of year b (a <= b)
DaysBetween(a, b) ==
    LET L(n) == (n \div 4) - (n \div 100) + (n \div 400)
    IN  365 * (b - a) + L(b - 1) - L(a - 1)

\* NaiveDate::from_ymd(year, 1, 1).checked_add_signed(Duration::days(off)):
\* whole 400-year cycles of 146097 days first, then the year and the day
\* within the cycle; None outside the years chrono represents
CheckedAddDays(year, off) ==
    LET base == year + 400 * (off \div 146097)
        rem == off % 146097
        k == CHOOSE n \in 0..399 :
            DaysBetween(base, base + n) <= rem
            /\ rem < DaysBetween(base, base + n + 1)
        y == base + k
    IN  IF y < -262144 \/ y > 262143 THEN <<>>
        ELSE <<[year |-> y, ordinal |-> rem - DaysBetween(base, y) + 1]>>

\* (tle_days - days) * 24 * 60 * 60, floored; frac is the digit string
\* after the decimal point and neg the sign of tle_days
SecondsOfDay(neg, frac) ==
    LET prod == MulCarry(frac, 86400, 0)
        whole == IntOfDigits(SubSeq(prod, 1, Len(prod) - Len(frac)))
        rest == SubSeq(prod, Len(prod) - Len(frac) + 1, Len(prod))
        exact == \A i \in 1..Len(rest) : rest[i] = 0
    IN  IF ~neg \/ frac = <<>> THEN whole
        ELSE IF exact THEN 86400 - whole
        ELSE 86400 - whole - 1

\* Duration::days(n) aborts ("Duration::seconds out of bounds") when
\* n * 86400 seconds exceed i64::MAX milliseconds: n > 106751991167.  The
\* day field has 12 bytes, so only a non-negative value can be that large.
DurationDaysPanics(neg, whole) ==
    ~neg /\ DigitsGE(whole,
        <<1,0,6,7,5,1,9,9,1,1,6,9>>)

\* the match with the boundary one year late: 57 in the 2000s
EpochYearLate(year) == IF year \in 0..57 THEN 2000 + year ELSE 1900 + year

\* the match on the two-digit year
EpochYear(year) == IF year \in 0..56 THEN 2000 + year ELSE 1900 + year

\* lines 400-411 of parse_date: tle_days is the decoded day-of-year
DateOf(year, tle_days) ==
    LET whole == IntPart(tle_days)
        frac == FracPart(tle_days)
        neg == tle_days.neg
        days == IF ~neg THEN IntOfDigits(whole)
                ELSE IF frac = <<>> THEN 0 - IntOfDigits(whole)
                ELSE 0 - IntOfDigits(whole) - 1
    IN  IF DurationDaysPanics(neg, whole)
        THEN Panic("Duration::seconds out of bounds")
        ELSE IF Len(whole) > 9 THEN Err("Date is out of bounds")
        ELSE LET date == CheckedAddDays(year, days - 1)
             IN  IF date = <<>> THEN Err("Date is out of bounds")
                 ELSE Ok([year |-> date[1].year, ordinal |-> date[1].ordinal,
                          secs |-> SecondsOfDay(neg, frac)])

parse_date(date) ==
    IF ~InRange(date, 0, 14) THEN Panic("range end index out of range")
    ELSE LET year == parse_number(Slice(date, 0, 2))
             tle_days == parse_float(Slice(date, 2, 14))
         IN  IF ~IsOk(year) THEN year
             ELSE IF ~IsOk(tle_days) THEN tle_days
             ELSE DateOf(EpochYear(Val(year)), Val(tle_days))

\* Angle::from_degrees; the radians (degrees * PI / 180) are not modelled
from_degrees(degrees) == [degrees |-> degrees]

(***************************************************************************)
(* TLE::checksum                                                           *)
(***************************************************************************)
\* the match of the loop body: what one byte adds to count
ChecksumGlyph(v) == IF IsDigit(v) THEN DigitVal(v) ELSE IF v = "-" THEN 1 ELSE 0

RECURSIVE ChecksumCount(_)
ChecksumCount(line) ==
    IF line = <<>> THEN 0
    ELSE ChecksumCount(SubSeq(line, 1, Len(line) - 1))
         + ChecksumGlyph(line[Len(line)])

\* checksum without `count -= checksum`: the checksum byte is summed too
checksum_keeps_digit(line) ==
    IF ~InRange(line, 68, 69) THEN Panic("range end index out of range")
    ELSE LET cs == parse_number(Slice(line, 68, 69))
         IN  IF ~IsOk(cs) THEN cs
             ELSE IF ChecksumCount(line) % 10 # Val(cs)
             THEN Err("Invalid checksum")
             ELSE Ok(TRUE)

checksum(line) ==
    IF ~InRange(line, 68, 69) THEN Panic("range end index out of range")
    ELSE LET cs == parse_number(Slice(line, 68, 69))
         IN  IF ~IsOk(cs) THEN cs
             ELSE IF (ChecksumCount(line) - Val(cs)) % 10 # Val(cs)
             THEN Err("Invalid checksum")
             ELSE Ok(TRUE)

(***************************************************************************)
(* The state of one call of TLE::from_lines                                *)
(***************************************************************************)
VARIABLES
    line1,      \* the arguments of the call
    line2,
    name_line,
    pc,         \* the step of from_lines that runs next
    locals,     \* the let-bindings made so far: field -> <<>> or <<value>>
    result      \* what the call returned: none yet, Ok, Err or Panic

vars == <<line1, line2, name_line, pc, locals, result>>

Fields ==
    {"name", "number", "class", "designator", "date", "ndot", "ndotdot",
     "b_star", "set_number", "inclination", "right_ascension",
     "eccentricity", "perigee", "mean_anomaly", "mean_motion", "revolutions"}

\* the steps of from_lines in the order of the source
StepOrder ==
    <<"checksum1", "checksum2", "name", "line_number1", "line_number2",
      "number", "class", "designator", "date", "ndot", "ndotdot", "b_star",
      "set_number", "inclination", "right_ascension", "eccentricity",
      "perigee", "mean_anomaly", "mean_motion", "revolutions", "build">>

StepIndex(step) == CHOOSE i \in 1..Len(StepOrder) : StepOrder[i] = step

NoResult == [kind |-> "none", msg |-> "", tle |-> <<>>]

\* `return Err(e)` or an abort of the call: nothing after it runs
Return(r) ==
    /\ result' = [kind |-> r.kind, msg |-> r.msg, tle |-> <<>>]
    /\ pc' = "done"
    /\ UNCHANGED locals

\* a binding that goes on after Err(e) instead of returning it
BindLenient(field, r, next) ==
    IF IsOk(r)
    THEN /\ locals' = [locals EXCEPT ![field] = <<Val(r)>>]
         /\ pc' = next
         /\ UNCHANGED result
    ELSE pc' = next /\ UNCHANGED <<locals, result>>

\* `let field = match r { Ok(v) => v, Err(e) => return Err(e) }`
Bind(field, r, next) ==
    IF IsOk(r)
    THEN /\ locals' = [locals EXCEPT ![field] = <<Val(r)>>]
         /\ pc' = next
         /\ UNCHANGED result
    ELSE Return(r)

\* a check that binds nothing
Check(r, next) ==
    IF IsOk(r) THEN pc' = next /\ UNCHANGED <<locals, result>>
    ELSE Return(r)

\* &line[lo..hi] on a line that is too short
OutOfRange == Panic("range end index out of range")

\* `match r { Ok(n) => n as u32, Err(e) => return Err(e) }`, and the like
OkU32(r) == IF IsOk(r) THEN Ok(AsU32(Val(r))) ELSE r

OkU16(r) == IF IsOk(r) THEN Ok(AsU16(Val(r))) ELSE r

OkDegrees(r) == IF IsOk(r) THEN Ok(from_degrees(Val(r))) ELSE r

\* TLE::parse_number(&line[0..1]).unwrap() != n
LineNumber(line, n, msg) ==
    LET r == parse_number(Slice(line, 0, 1))
    IN  IF ~InRange(line, 0, 1) THEN OutOfRange
        ELSE IF ~IsOk(r)
        THEN Panic("called Result::unwrap on an Err value")
        ELSE IF Val(r) # n THEN Err(msg)
        ELSE Ok(TRUE)

(***************************************************************************)
(* The decoding of each field of from_lines, with the byte range of the    *)
(* source                                                                  *)
(***************************************************************************)
DecodeNumber(l1) ==
    IF ~InRange(l1, 2, 7) THEN OutOfRange
    ELSE OkU32(parse_number(Slice(l1, 2, 7)))

DecodeClass(l1) ==
    IF ~InRange(l1, 7, 8) THEN OutOfRange
    ELSE LET s == parse_string(Slice(l1, 7, 8))
         IN  IF IsOk(s) THEN string_to_class(Val(s)) ELSE s

DecodeDesignator(l1) ==
    IF ~InRange(l1, 9, 17) THEN OutOfRange
    ELSE parse_designator(Slice(l1, 9, 17))

DecodeDate(l1) ==
    IF ~InRange(l1, 18, 32) THEN OutOfRange
    ELSE parse_date(Slice(l1, 18, 32))

DecodeNdot(l1) ==
    IF ~InRange(l1, 33, 43) THEN OutOfRange
    ELSE parse_float(Slice(l1, 33, 43))

DecodeNdotdot(l1) ==
    IF ~InRange(l1, 44, 52) THEN OutOfRange
    ELSE parse_pow_10(Slice(l1, 44, 52))

DecodeBStar(l1) ==
    IF ~InRange(l1, 53, 61) THEN OutOfRange
    ELSE parse_pow_10(Slice(l1, 53, 61))

DecodeSetNumber(l1) ==
    IF ~InRange(l1, 64, 68) THEN OutOfRange
    ELSE OkU16(parse_number(Slice(l1, 64, 68)))

DecodeInclination(l2) ==
    IF ~InRange(l2, 8, 16) THEN OutOfRange
    ELSE OkDegrees(parse_float(Slice(l2, 8, 16)))

DecodeRightAscension(l2) ==
    IF ~InRange(l2, 17, 25) THEN OutOfRange
    ELSE OkDegrees(parse_float(Slice(l2, 17, 25)))

\* n as f64 * 10e-8
EccentricityOf(n) == Scale10(DecOfInt(n), 0 - 7)

OkEccentricity(r) == IF IsOk(r) THEN Ok(EccentricityOf(Val(r))) ELSE r

DecodeEccentricity(l2) ==
    IF ~InRange(l2, 26, 33) THEN OutOfRange
    ELSE OkEccentricity(parse_number(Slice(l2, 26, 33)))

DecodePerigee(l2) ==
    IF ~InRange(l2, 34, 42) THEN OutOfRange
    ELSE OkDegrees(parse_float(Slice(l2, 34, 42)))

DecodeMeanAnomaly(l2) ==
    IF ~InRange(l2, 43, 51) THEN OutOfRange
    ELSE OkDegrees(parse_float(Slice(l2, 43, 51)))

DecodeMeanMotion(l2) ==
    IF ~InRange(l2, 52, 63) THEN OutOfRange
    ELSE parse_float(Slice(l2, 52, 63))

\* the revolution count read one column early, at [62:68]
DecodeRevolutionsShifted(l2) ==
    IF ~InRange(l2, 62, 68) THEN OutOfRange
    ELSE OkU32(parse_number(Slice(l2, 62, 68)))

DecodeRevolutions(l2) ==
    IF ~InRange(l2, 63, 68) THEN OutOfRange
    ELSE OkU32(parse_number(Slice(l2, 63, 68)))

(***************************************************************************)
(* The steps of TLE::from_lines                                            *)
(***************************************************************************)
Checksum1 == pc = "checksum1" /\ Check(checksum(line1), "checksum2")

Checksum2 == pc = "checksum2" /\ Check(checksum(line2), "name")

Name == pc = "name" /\ Bind("name", parse_string(name_line), "line_number1")

LineNumber1 ==
    /\ pc = "line_number1"
    /\ Check(LineNumber(line1, 1, "Line 1 number is incorrect"), "line_number2")

LineNumber2 ==
    /\ pc = "line_number2"
    /\ Check(LineNumber(line2, 2, "Line 2 number is incorrect"), "number")

Number == pc = "number" /\ Bind("number", DecodeNumber(line1), "class")

Class == pc = "class" /\ Bind("class", DecodeClass(line1), "designator")

DesignatorStep ==
    pc = "designator" /\ Bind("designator", DecodeDesignator(line1), "date")

Date == pc = "date" /\ Bind("date", DecodeDate(line1), "ndot")

Ndot == pc = "ndot" /\ Bind("ndot", DecodeNdot(line1), "ndotdot")

Ndotdot == pc = "ndotdot" /\ Bind("ndotdot", DecodeNdotdot(line1), "b_star")

BStar == pc = "b_star" /\ Bind("b_star", DecodeBStar(line1), "set_number")

SetNumber ==
    pc = "set_number" /\ Bind("set_number", DecodeSetNumber(line1), "inclination")

Inclination ==
    /\ pc = "inclination"
    /\ Bind("inclination", DecodeInclination(line2), "right_ascension")

RightAscension ==
    /\ pc = "right_ascension"
    /\ Bind("right_ascension", DecodeRightAscension(line2), "eccentricity")

Eccentricity ==
    /\ pc = "eccentricity"
    /\ Bind("eccentricity", DecodeEccentricity(line2), "perigee")

Perigee == pc = "perigee" /\ Bind("perigee", DecodePerigee(line2), "mean_anomaly")

MeanAnomaly ==
    /\ pc = "mean_anomaly"
    /\ Bind("mean_anomaly", DecodeMeanAnomaly(line2), "mean_motion")

MeanMotion ==
    /\ pc = "mean_motion"
    /\ Bind("mean_motion", DecodeMeanMotion(line2), "revolutions")

Revolutions ==
    pc = "revolutions" /\ Bind("revolutions", DecodeRevolutions(line2), "build")

\* Ok(TLE { name, number, ... }): every field is bound here
Build ==
    /\ pc = "build"
    /\ result' = [kind |-> "Ok", tle |-> <<[f \in Fields |-> locals[f][1]]>>,
                  msg |-> ""]
    /\ pc' = "done"
    /\ UNCHANGED locals

Next ==
    \/ (Checksum1 /\ UNCHANGED <<line1, line2, name_line>>)
    \/ (Checksum2 /\ UNCHANGED <<line1, line2, name_line>>)
    \/ (Name /\ UNCHANGED <<line1, line2, name_line>>)
    \/ (LineNumber1 /\ UNCHANGED <<line1, line2, name_line>>)
    \/ (LineNumber2 /\ UNCHANGED <<line1, line2, name_line>>)
    \/ (Number /\ UNCHANGED <<line1, line2, name_line>>)
    \/ (Class /\ UNCHANGED <<line1, line2, name_line>>)
    \/ (DesignatorStep /\ UNCHANGED <<line1, line2, name_line>>)
    \/ (Date /\ UNCHANGED <<line1, line2, name_line>>)
    \/ (Ndot /\ UNCHANGED <<line1, line2, name_line>>)
    \/ (Ndotdot /\ UNCHANGED <<line1, line2, name_line>>)
    \/ (BStar /\ UNCHANGED <<line1, line2, name_line>>)
    \/ (SetNumber /\ UNCHANGED <<line1, line2, name_line>>)
    \/ (Inclination /\ UNCHANGED <<line1, line2, name_line>>)
    \/ (RightAscension /\ UNCHANGED <<line1, line2, name_line>>)
    \/ (Eccentricity /\ UNCHANGED <<line1, line2, name_line>>)
    \/ (Perigee /\ UNCHANGED <<line1, line2, name_line>>)
    \/ (MeanAnomaly /\ UNCHANGED <<line1, line2, name_line>>)
    \/ (MeanMotion /\ UNCHANGED <<line1, line2, name_line>>)
    \/ (Revolutions /\ UNCHANGED <<line1, line2, name_line>>)
    \/ (Build /\ UNCHANGED <<line1, line2, name_line>>)

(***************************************************************************)
(* The records from_lines is called with: the ISS record of                *)
(* examples/tle.rs with some of its columns overwritten, each element line *)
(* closed by a correct or an incorrect checksum byte.                      *)
(***************************************************************************)
Base1 ==
    Chars("1 25544U 98067A   21316.58314353 -.00007551  00000-0 -13101-3 0  9994")

Base2 ==
    Chars("2 25544  51.6442 328.9484 0004731 186.1225 318.0089 15.48559922311590")

BaseName == Chars("ISS (ZARYA)   ")

\* the bytes `by` written at column `at` (0-indexed) of line ln (0: the name)
Edit(ln, at, str) == [ln |-> ln, at |-> at, by |-> Chars(str)]

Covers(e, ln, i) == e.ln = ln /\ e.at < i /\ i <= e.at + Len(e.by)

Apply(line, ln, E) ==
    [i \in 1..Len(line) |->
        IF \E e \in E : Covers(e, ln, i)
        THEN LET e == CHOOSE x \in E : Covers(x, ln, i) IN e.by[i - e.at]
        ELSE line[i]]

\* no two edits of E write the same column
Compatible(E) ==
    \A a, b \in E : a # b =>
        (a.ln # b.ln \/ a.at + Len(a.by) <= b.at \/ b.at + Len(b.by) <= a.at)

\* the checksum of the file format over columns 0..67: the sum of the digits,
\* each "-" counted as 1
RECURSIVE GlyphSum(_, _)
GlyphSum(line, n) ==
    IF n = 0 THEN 0
    ELSE GlyphSum(line, n - 1)
         + (IF IsDigit(line[n]) THEN DigitVal(line[n])
            ELSE IF line[n] = "-" THEN 1 ELSE 0)

FormatChecksum(line) == GlyphSum(line, 68) % 10

\* the line with its last byte set: the right digit plus k (mod 10) for k in
\* 0..9, a blank for k = 10
Seal(line, k) ==
    IF k = 10 THEN [line EXCEPT ![69] = " "]
    ELSE [line EXCEPT ![69] = DigitChars[((FormatChecksum(line) + k) % 10) + 1]]

\* how many columns of a record are damaged at once
MaxFaults == 2

\* damaged columns: wrong or non-numeric line numbers, undecodable fields, a
\* signed mantissa, a signed eccentricity, day numbers beyond the calendar, a
\* name that is not UTF-8
Faults ==
    { Edit(1, 0, "2"), Edit(1, 0, "A"), Edit(1, 0, " "),
      Edit(1, 2, "2554X"), Edit(1, 7, "X"),
      Edit(1, 20, "999999999999"), Edit(1, 20, "099999999999"),
      Edit(1, 53, "+13101-3"),
      Edit(2, 0, "1"), Edit(2, 0, " "),
      Edit(2, 8, " 51.64X2"), Edit(2, 26, "-004731"), Edit(2, 63, "3115X"),
      [ln |-> 0, at |-> 0, by |-> <<BadByte>>] }

\* the last bytes of the two lines: at most one wrong (any other digit, or a
\* blank), or both wrong
SealPairs ==
    {<<0, 0>>, <<1, 1>>} \cup {<<k, 0>> : k \in 1..10} \cup {<<0, k>> : k \in 1..10}

\* the same for records damaged in several columns
FaultSealPairs == {<<0, 0>>, <<1, 0>>, <<0, 1>>}

\* every two-digit epoch year
YearEdits == {[ln |-> 1, at |-> 18, by |-> <<DigitChars[(y \div 10) + 1],
                                              DigitChars[(y % 10) + 1]>>] : y \in 0..99}

\* assumed-decimal B* fields: sign or blank, 5 digits, exponent sign and digit
Pow10Edits ==
    {[ln |-> 1, at |-> 53, by |-> <<sg>> \o Chars(m) \o <<es, ed>>] :
        sg \in {" ", "-", "+"}, m \in {"00000", "00001", "13101", "50000", "99999"},
        es \in {"+", "-"}, ed \in {"0", "3", "9"}}

\* single well-formed or malformed values of each field
FieldEdits ==
    YearEdits \cup Pow10Edits \cup
    { Edit(1, 2, "    5"), Edit(1, 2, "00001"), Edit(1, 2, "99999"),
      Edit(1, 1, "9"), Edit(1, 8, "7"),
      Edit(1, 7, "C"), Edit(1, 7, "S"), Edit(1, 7, " "), Edit(1, 7, "u"),
      Edit(1, 9, "21001ABC"), Edit(1, 9, "00999Z  "), Edit(1, 9, "98 67A  "),
      Edit(1, 17, "5"),
      Edit(1, 20, "001.00000000"), Edit(1, 20, "000.50000000"),
      Edit(1, 20, "365.99999999"), Edit(1, 20, "366.00031250"),
      Edit(1, 20, "400.25000000"), Edit(1, 20, "094250000.00"),
      Edit(1, 20, "095250000.00"), Edit(1, 20, "106751991168"),
      Edit(1, 20, "106751991169"), Edit(1, 20, "  1.5       "),
      Edit(1, 32, "1"),
      Edit(1, 33, " .00006635"), Edit(1, 33, "+.00000085"), Edit(1, 43, "."),
      Edit(1, 44, " 12985-3"), Edit(1, 44, "-56178+1"), Edit(1, 44, " 12345 2"),
      Edit(1, 52, "0"), Edit(1, 61, "5"),
      Edit(1, 64, "   1"), Edit(1, 64, "9999"), Edit(1, 63, "7"),
      Edit(2, 7, "1"), Edit(2, 8, "  0.0000"), Edit(2, 8, "179.9999"),
      Edit(2, 16, "0"), Edit(2, 17, "  6.8285"), Edit(2, 25, "."),
      Edit(2, 26, "0000000"), Edit(2, 26, "9999999"), Edit(2, 26, "0003768"),
      Edit(2, 26, "     12"), Edit(2, 26, "+004731"), Edit(2, 26, "00047.1"),
      Edit(2, 33, "0"),
      Edit(2, 34, "  7.2156"), Edit(2, 42, "3"), Edit(2, 43, "352.5939"),
      Edit(2, 51, "1"), Edit(2, 52, " 2.29560923"), Edit(2, 52, "15.48692786"),
      Edit(2, 63, "00001"), Edit(2, 63, "99999"), Edit(2, 63, "    7") }

InitCall(E, k1, k2) ==
    /\ line1 = Seal(Apply(Base1, 1, E), k1)
    /\ line2 = Seal(Apply(Base2, 2, E), k2)
    /\ name_line = Apply(BaseName, 0, E)
    /\ pc = "checksum1"
    /\ locals = [f \in Fields |-> <<>>]
    /\ result = NoResult

Init ==
    \/ \E e \in FieldEdits : InitCall({e}, 0, 0)
    \/ \E F \in SUBSET Faults, k \in SealPairs :
          /\ Cardinality(F) <= 1
          /\ InitCall(F, k[1], k[2])
    \/ \E F \in SUBSET Faults, k \in FaultSealPairs :
          /\ Cardinality(F) <= MaxFaults
          /\ Compatible(F)
          /\ InitCall(F, k[1], k[2])

Spec == Init /\ [][Next]_vars

(***************************************************************************)
(* Definitions shared by the properties                                    *)
(***************************************************************************)
Done == pc = "done"

Accepted == Done /\ result.kind = "Ok"

\* the TLE that from_lines returned
Tle == result.tle[1]

InvalidChecksum == result.kind = "Err" /\ result.msg = "Invalid checksum"

LineNumberFailure ==
    /\ result.kind = "Err"
    /\ result.msg \in {"Line 1 number is incorrect", "Line 2 number is incorrect"}

\* the last byte of the line is a digit, and the digit the format asks for
ChecksumDigitOk(line) ==
    IsDigit(line[69]) /\ DigitVal(line[69]) = FormatChecksum(line)

\* the last byte of the line is a digit, and another one than the format asks for
ChecksumDigitWrong(line) ==
    IsDigit(line[69]) /\ DigitVal(line[69]) # FormatChecksum(line)

\* the step that binds `field` has run: the binding before it is made and the
\* call has moved on
HasRun(before, step) == locals[before] # <<>> /\ pc # step

\* what each step of the source order makes of the arguments of the call
StepResult(step) ==
    CASE step = "checksum1" -> checksum(line1)
      [] step = "checksum2" -> checksum(line2)
      [] step = "name" -> parse_string(name_line)
      [] step = "line_number1" -> LineNumber(line1, 1, "Line 1 number is incorrect")
      [] step = "line_number2" -> LineNumber(line2, 2, "Line 2 number is incorrect")
      [] step = "number" -> DecodeNumber(line1)
      [] step = "class" -> DecodeClass(line1)
      [] step = "designator" -> DecodeDesignator(line1)
      [] step = "date" -> DecodeDate(line1)
      [] step = "ndot" -> DecodeNdot(line1)
      [] step = "ndotdot" -> DecodeNdotdot(line1)
      [] step = "b_star" -> DecodeBStar(line1)
      [] step = "set_number" -> DecodeSetNumber(line1)
      [] step = "inclination" -> DecodeInclination(line2)
      [] step = "right_ascension" -> DecodeRightAscension(line2)
      [] step = "eccentricity" -> DecodeEccentricity(line2)
      [] step = "perigee" -> DecodePerigee(line2)
      [] step = "mean_anomaly" -> DecodeMeanAnomaly(line2)
      [] step = "mean_motion" -> DecodeMeanMotion(line2)
      [] step = "revolutions" -> DecodeRevolutions(line2)
      [] OTHER -> Ok(TRUE)

StepFails(i) == StepResult(StepOrder[i]).kind # "Ok"

\* the steps 1..n all succeed on the arguments of the call
StepsOk(n) == \A i \in 1..n : ~StepFails(i)

\* the first step that fails, or one past the last step
FirstFailure ==
    IF StepsOk(Len(StepOrder)) THEN Len(StepOrder) + 1
    ELSE CHOOSE i \in 1..Len(StepOrder) : StepFails(i) /\ StepsOk(i - 1)

(***************************************************************************)
(* C1: from_lines accepts a record only if each element line's checksum    *)
(* (digits of columns 0..67 summed, "-" counted as 1, mod 10) equals the   *)
(* digit in column 68; a line whose last digit is any other digit makes    *)
(* the call fail with "Invalid checksum", and lines with the right digit   *)
(* never do.                                                               *)
(***************************************************************************)
C1_ChecksumEnforced ==
    Done =>
        /\ result.kind = "Ok" => ChecksumDigitOk(line1) /\ ChecksumDigitOk(line2)
        /\ ChecksumDigitWrong(line1) => InvalidChecksum
        /\ ChecksumDigitOk(line1) /\ ChecksumDigitWrong(line2) => InvalidChecksum
        /\ ChecksumDigitOk(line1) /\ ChecksumDigitOk(line2) => ~InvalidChecksum

\* the ISS line 1 with its final digit 4 replaced by 5 is refused
C1_Witness ==
    /\ Done
    /\ SubSeq(line1, 1, 68) = SubSeq(Base1, 1, 68)
    /\ line1[69] = "5"
    /\ InvalidChecksum

(***************************************************************************)
(* C2 (as claimed): the failure returned is that of the first failing step *)
(* in the order checksum 1, checksum 2, line numbers, fields: a bad        *)
(* checksum with a bad line number or field reports the checksum failure,  *)
(* a bad line number with a bad field reports the line-number failure.     *)
(***************************************************************************)
BadLineNumber == line1[1] # "1" \/ line2[1] # "2"

BadField == \E i \in 6..20 : StepFails(i)

C2_OrderAsClaimed ==
    Done =>
        /\ (StepFails(1) \/ StepFails(2)) /\ (BadLineNumber \/ BadField) =>
              /\ result.kind = "Err"
              /\ result.msg = (IF StepFails(1) THEN checksum(line1).msg
                               ELSE checksum(line2).msg)
        /\ ~StepFails(1) /\ ~StepFails(2) /\ BadLineNumber /\ BadField =>
              LineNumberFailure

(***************************************************************************)
(* C3 (as claimed): when both checksums pass and the first byte of line 1  *)
(* is not "1" or the first byte of line 2 is not "2", from_lines returns   *)
(* a line-number failure value.                                            *)
(***************************************************************************)
C3_LineNumberAsClaimed ==
    Done /\ StepsOk(3) /\ BadLineNumber => LineNumberFailure

(***************************************************************************)
(* C4: a failure of any step ends the call at once with a failure and no   *)
(* TLE: no later step runs, nothing is returned but the failure, and a TLE *)
(* is returned only when every step succeeded, holding the value each step *)
(* decoded.                                                                *)
(***************************************************************************)
\* the field a step binds is bound
BoundBy(i) == StepOrder[i] \in Fields /\ locals[StepOrder[i]] # <<>>

C4_NoPartialTle ==
    /\ ~Done =>
          /\ result = NoResult
          /\ StepsOk(StepIndex(pc) - 1)
    /\ Done =>
          /\ result.kind = "Ok" <=> StepsOk(Len(StepOrder))
          /\ result.kind # "Ok" =>
                /\ result.kind = StepResult(StepOrder[FirstFailure]).kind
                /\ result.msg = StepResult(StepOrder[FirstFailure]).msg
                /\ result.tle = <<>>
                /\ \A i \in FirstFailure..Len(StepOrder) : ~BoundBy(i)
          /\ result.kind = "Ok" =>
                \A i \in 1..Len(StepOrder) : StepOrder[i] \in Fields =>
                    Tle[StepOrder[i]] = Val(StepResult(StepOrder[i]))

\* a record whose class byte alone is bad: the call ended at the class step,
\* with the name and the number bound and nothing returned
C4_Witness ==
    /\ Done
    /\ FirstFailure = StepIndex("class")
    /\ result.kind = "Err"
    /\ result.tle = <<>>
    /\ locals["number"] # <<>>
    /\ locals["designator"] = <<>>

(***************************************************************************)
(* C5: each field of the returned TLE is decoded from the byte range of    *)
(* the offset table and from no other byte, a record is accepted exactly   *)
(* when its checks pass and every range of the table decodes, and the ISS  *)
(* example has satellite number 25544.                                     *)
(***************************************************************************)
\* columns [lo:hi) of a line, as the offset table counts them
Cols(line, lo, hi) == SubSeq(line, lo + 1, hi)

Degrees(r) == [degrees |-> Val(r)]

TableDecodes ==
    /\ IsOk(parse_number(Cols(line1, 2, 7)))
    /\ IsOk(parse_string(Cols(line1, 7, 8)))
    /\ IsOk(string_to_class(Val(parse_string(Cols(line1, 7, 8)))))
    /\ IsOk(parse_designator(Cols(line1, 9, 17)))
    /\ IsOk(parse_date(Cols(line1, 18, 32)))
    /\ IsOk(parse_float(Cols(line1, 33, 43)))
    /\ IsOk(parse_pow_10(Cols(line1, 44, 52)))
    /\ IsOk(parse_pow_10(Cols(line1, 53, 61)))
    /\ IsOk(parse_number(Cols(line1, 64, 68)))
    /\ IsOk(parse_float(Cols(line2, 8, 16)))
    /\ IsOk(parse_float(Cols(line2, 17, 25)))
    /\ IsOk(parse_number(Cols(line2, 26, 33)))
    /\ IsOk(parse_float(Cols(line2, 34, 42)))
    /\ IsOk(parse_float(Cols(line2, 43, 51)))
    /\ IsOk(parse_float(Cols(line2, 52, 63)))
    /\ IsOk(parse_number(Cols(line2, 63, 68)))

C5_FieldOffsets ==
    Done =>
        /\ result.kind = "Ok" <=> (StepsOk(5) /\ TableDecodes)
        /\ result.kind = "Ok" =>
              /\ Tle.number = AsU32(Val(parse_number(Cols(line1, 2, 7))))
              /\ Tle.class = Val(string_to_class(Val(parse_string(Cols(line1, 7, 8)))))
              /\ Tle.designator = Val(parse_designator(Cols(line1, 9, 17)))
              /\ Tle.date = Val(parse_date(Cols(line1, 18, 32)))
              /\ Tle.ndot = Val(parse_float(Cols(line1, 33, 43)))
              /\ Tle.ndotdot = Val(parse_pow_10(Cols(line1, 44, 52)))
              /\ Tle.b_star = Val(parse_pow_10(Cols(line1, 53, 61)))
              /\ Tle.set_number = AsU16(Val(parse_number(Cols(line1, 64, 68))))
              /\ Tle.inclination = Degrees(parse_float(Cols(line2, 8, 16)))
              /\ Tle.right_ascension = Degrees(parse_float(Cols(line2, 17, 25)))
              /\ Tle.eccentricity = EccentricityOf(Val(parse_number(Cols(line2, 26, 33))))
              /\ Tle.perigee = Degrees(parse_float(Cols(line2, 34, 42)))
              /\ Tle.mean_anomaly = Degrees(parse_float(Cols(line2, 43, 51)))
              /\ Tle.mean_motion = Val(parse_float(Cols(line2, 52, 63)))
              /\ Tle.revolutions = AsU32(Val(parse_number(Cols(line2, 63, 68))))
        /\ line1 = Base1 /\ StepsOk(5) /\ TableDecodes =>
              result.kind = "Ok" /\ Tle.number = [hi |-> 0, lo |-> 25544]

\* the ISS record is accepted with satellite number 25544 and revolution
\* count 31159
C5_Witness ==
    /\ Accepted
    /\ line1 = Base1
    /\ line2 = Base2
    /\ Tle.number = [hi |-> 0, lo |-> 25544]
    /\ Tle.revolutions = [hi |-> 0, lo |-> 31159]

(***************************************************************************)
(* C6 (as claimed): for every 8-byte field made of a sign or blank, five   *)
(* mantissa digits, an exponent sign and one exponent digit, parse_pow_10  *)
(* returns sign x 0.ddddd x 10^exponent.                                   *)
(***************************************************************************)
Pow10Shape(f) ==
    /\ Len(f) = 8
    /\ f[1] \in {" ", "+", "-"}
    /\ \A i \in 2..6 : IsDigit(f[i])
    /\ f[7] \in {"+", "-"}
    /\ IsDigit(f[8])

\* sign x 0.ddddd x 10^exponent
Pow10Value(f) ==
    Scale10(Dec(f[1] = "-", CharsToDigits(SubSeq(f, 2, 6)), 5),
            IF f[7] = "-" THEN 0 - DigitVal(f[8]) ELSE DigitVal(f[8]))

C6_Pow10AsClaimed ==
    HasRun("ndotdot", "b_star") /\ Pow10Shape(Cols(line1, 53, 61)) =>
        locals["b_star"] = <<Pow10Value(Cols(line1, 53, 61))>>

(***************************************************************************)
(* C7 (as claimed): in every accepted record the eccentricity is the       *)
(* number of columns [26:33] of line 2 times 10^-7 and lies in [0, 1).     *)
(***************************************************************************)
C7_EccentricityAsClaimed ==
    Accepted =>
        /\ Tle.eccentricity = EccentricityOf(Val(parse_number(Cols(line2, 26, 33))))
        /\ ~Tle.eccentricity.neg
        /\ IntPart(Tle.eccentricity) = <<>>

(***************************************************************************)
(* C8: parse_date maps every two-digit epoch year yy in 00..56 to the year *)
(* 2000 + yy and every yy in 57..99 to 1900 + yy (seen in the decoded date *)
(* of every record whose day of year is the 316th).                        *)
(***************************************************************************)
TwoDigitYear == IsDigit(line1[19]) /\ IsDigit(line1[20])

YY == 10 * DigitVal(line1[19]) + DigitVal(line1[20])

C8_EpochYear ==
    /\ HasRun("designator", "date")
    /\ TwoDigitYear
    /\ Cols(line1, 20, 32) = Cols(Base1, 20, 32)
    =>
    /\ locals["date"] # <<>>
    /\ locals["date"][1].year = (IF YY <= 56 THEN 2000 + YY ELSE 1900 + YY)
    /\ locals["date"][1].ordinal = 316

\* epoch year 57 is decoded as 1957 (and 56 would be 2056)
C8_Witness ==
    /\ Accepted
    /\ Cols(line1, 18, 20) = <<"5", "7">>
    /\ Tle.date.year = 1957

(***************************************************************************)
(* C9 (as claimed): parse_date decodes the day of year d.f as 1 January of *)
(* the epoch year plus d - 1 days at floor(f x 86400) seconds, and for     *)
(* every day value past the calendar bounds, the largest of the field      *)
(* included, returns the "Date is out of bounds" failure.                  *)
(***************************************************************************)
\* the day field is ddd.ffffffff with 1 <= ddd <= 365
DayInYear(f) ==
    /\ \A i \in {1, 2, 3} \cup (5..12) : IsDigit(f[i])
    /\ f[4] = "."
    /\ DigitsToInt(SubSeq(f, 1, 3)) \in 1..365

\* floor(0.ffffffff x 86400): 86400 / 10^8 = 27 / 31250
SecondsOfFraction(f) ==
    LET n == DigitsToInt(SubSeq(f, 5, 12))
    IN  27 * (n \div 31250) + ((27 * (n % 31250)) \div 31250)

\* a day value of ten or more digits: more than 2.7 million years
DayBeyondCalendar(f) ==
    /\ \A i \in 1..12 : IsDigit(f[i])
    /\ Len(StripLeadingZeros(CharsToDigits(f))) >= 10

C9_DateAsClaimed ==
    HasRun("designator", "date") /\ TwoDigitYear =>
        /\ DayInYear(Cols(line1, 20, 32)) =>
              locals["date"] =
                  <<[year |-> (IF YY <= 56 THEN 2000 + YY ELSE 1900 + YY),
                     ordinal |-> DigitsToInt(Cols(line1, 20, 23)),
                     secs |-> SecondsOfFraction(Cols(line1, 20, 32))]>>
        /\ DayBeyondCalendar(Cols(line1, 20, 32)) =>
              result.kind = "Err" /\ result.msg = "Date is out of bounds"

(***************************************************************************)
(* C10: the classification byte at column 7 of line 1 is mapped "U" to     *)
(* Unclassified, "C" to Classified and "S" to Secret; every other byte, a  *)
(* blank included, makes from_lines fail, and no accepted record has       *)
(* another classification.                                                 *)
(***************************************************************************)
C10_Classification ==
    /\ HasRun("number", "class") =>
          /\ line1[8] = "U" => locals["class"] = <<"Unclassified">>
          /\ line1[8] = "C" => locals["class"] = <<"Classified">>
          /\ line1[8] = "S" => locals["class"] = <<"Secret">>
          /\ line1[8] \notin {"U", "C", "S"} =>
                Done /\ result.kind = "Err" /\ locals["class"] = <<>>
    /\ Accepted => Tle.class \in {"Unclassified", "Classified", "Secret"}

\* a blank classification byte is refused
C10_Witness ==
    /\ Done
    /\ StepsOk(6)
    /\ line1[8] = " "
    /\ result.kind = "Err"
    /\ result.msg = "Invalid class string "

(***************************************************************************)
(* f64 values of the geometry code as exact fractions n/d in lowest terms, *)
(* d > 0; the rounding of f64 arithmetic is outside the model              *)
(***************************************************************************)
RECURSIVE GCD(_, _)
GCD(a, b) == IF b = 0 THEN a ELSE GCD(b, a % b)

AbsInt(n) == IF n < 0 THEN -n ELSE n

Frac(n, d) ==
    LET g == GCD(AbsInt(n), AbsInt(d))
        s == IF d < 0 THEN -1 ELSE 1
    IN  [n |-> s * (n \div g), d |-> s * (d \div g)]

Num(n) == [n |-> n, d |-> 1]

\* over the least common denominator
Add(a, b) ==
    LET g == GCD(a.d, b.d)
    IN  Frac(a.n * (b.d \div g) + b.n * (a.d \div g), (a.d \div g) * b.d)

Neg(a) == [n |-> -a.n, d |-> a.d]

Sub(a, b) == Add(a, Neg(b))

\* common factors are cancelled before the products are formed
Mul(a, b) ==
    LET g1 == GCD(AbsInt(a.n), b.d)
        g2 == GCD(AbsInt(b.n), a.d)
    IN  Frac((a.n \div g1) * (b.n \div g2), (a.d \div g2) * (b.d \div g1))

\* a / b for b # 0
Div(a, b) ==
    Mul(a, IF b.n < 0 THEN [n |-> 0 - b.d, d |-> 0 - b.n] ELSE [n |-> b.d, d |-> b.n])

AbsF(a) == [n |-> AbsInt(a.n), d |-> a.d]

\* a < 1e-10 for a >= 0: n * 10^10 < d, computed in two halves to stay
\* inside the integers of the checker
BelowEpsilon(a) ==
    /\ a.n <= 21474
    /\ a.n * 100000 <= (a.d - 1) \div 100000

(***************************************************************************)
(* geometry.rs: Matrix, a 3x3 array of f64; values[i][j] is At(m, i, j)    *)
(***************************************************************************)
At(m, i, j) == m[i + 1][j + 1]

MatrixNew(values) == values

determinant_cofactor(m) ==
    Add(Sub(Mul(At(m, 0, 0),
                Sub(Mul(At(m, 1, 1), At(m, 2, 2)), Mul(At(m, 1, 2), At(m, 2, 1)))),
            Mul(At(m, 0, 1),
                Sub(Mul(At(m, 1, 0), At(m, 2, 2)), Mul(At(m, 1, 2), At(m, 2, 0))))),
        Mul(At(m, 0, 2),
            Sub(Mul(At(m, 1, 0), At(m, 2, 1)), Mul(At(m, 1, 1), At(m, 2, 0)))))

\* the six products of Matrix::determinant, summed left to right with the
\* signs of the source: + - + - + -
determinant(m) ==
    LET p1 == Mul(Mul(At(m, 0, 0), At(m, 1, 1)), At(m, 2, 2))
        p2 == Mul(Mul(At(m, 0, 0), At(m, 1, 2)), At(m, 2, 1))
        p3 == Mul(Mul(At(m, 0, 1), At(m, 1, 0)), At(m, 2, 2))
        p4 == Mul(Mul(At(m, 0, 1), At(m, 1, 2)), At(m, 2, 0))
        p5 == Mul(Mul(At(m, 0, 2), At(m, 1, 0)), At(m, 2, 1))
        p6 == Mul(Mul(At(m, 0, 2), At(m, 1, 1)), At(m, 2, 0))
    IN  Sub(Add(Sub(Add(Sub(p1, p2), p3), p4), p5), p6)

transpose(m) ==
    MatrixNew(<< <<At(m, 0, 0), At(m, 1, 0), At(m, 2, 0)>>,
                 <<At(m, 0, 1), At(m, 1, 1), At(m, 2, 1)>>,
                 <<At(m, 0, 2), At(m, 1, 2), At(m, 2, 2)>> >>)

invert(m) ==
    LET det == determinant(m)
        t == transpose(m)
    IN  IF BelowEpsilon(AbsF(det))
        THEN Err("Matrix cannot be inverted")
        ELSE Ok(MatrixNew(
                 << <<Div(At(t, 0, 0), det), Div(At(t, 0, 1), det), Div(At(t, 0, 2), det)>>,
                    <<Div(At(t, 1, 0), det), Div(At(t, 1, 1), det), Div(At(t, 1, 2), det)>>,
                    <<Div(At(t, 2, 0), det), Div(At(t, 2, 1), det), Div(At(t, 2, 2), det)>> >>))

(***************************************************************************)
(* Calls of the Matrix operations on matrices with small integer entries.  *)
(* The third row is the unit vector of Z or a copy of another row, so that *)
(* rotations about Z and matrices with two identical rows are among the    *)
(* inputs.                                                                 *)
(***************************************************************************)
MaxEntry == 1

Entries == (0 - MaxEntry)..MaxEntry

Rows == {<<Num(a), Num(b), Num(c)>> : a \in Entries, b \in Entries, c \in Entries}

UnitZ == <<Num(0), Num(0), Num(1)>>

TopRows == {<<Num(a), Num(b), Num(c)>> : a \in Entries, b \in Entries, c \in {0, 1}}

Matrices ==
    {MatrixNew(<<r0, r1, r2>>) : r0 \in TopRows, r1 \in Rows, r2 \in {UnitZ}}
    \cup {MatrixNew(<<r0, r1, r0>>) : r0 \in TopRows, r1 \in Rows}
    \cup {MatrixNew(<<r0, r1, r1>>) : r0 \in TopRows, r1 \in Rows}

NoRecord ==
    /\ line1 = <<>>
    /\ line2 = <<>>
    /\ name_line = <<>>

MatrixInit ==
    /\ NoRecord
    /\ pc = "matrix"
    /\ \E m \in Matrices : locals = [m |-> m]
    /\ result = NoResult

Determinant ==
    /\ pc = "matrix"
    /\ pc' = "determinant"
    /\ result' = Ok(determinant(locals.m))
    /\ UNCHANGED <<line1, line2, name_line, locals>>

Invert ==
    /\ pc = "matrix"
    /\ pc' = "invert"
    /\ result' = invert(locals.m)
    /\ UNCHANGED <<line1, line2, name_line, locals>>

MatrixNext ==
    \/ Determinant
    \/ Invert

MatrixSpec == MatrixInit /\ [][MatrixNext]_vars

\* rows i and j of m hold the same three values
SameRows(m, i, j) == m[i + 1] = m[j + 1]

TwoIdenticalRows(m) == SameRows(m, 0, 1) \/ SameRows(m, 0, 2) \/ SameRows(m, 1, 2)

\* the rotation by 90 degrees about Z, a proper rotation
RotZ90 ==
    << <<Num(0), Num(-1), Num(0)>>,
       <<Num(1), Num(0), Num(0)>>,
       <<Num(0), Num(0), Num(1)>> >>

\* C11: after Matrix::determinant the value returned is the cofactor
\* expansion m00(m11 m22 - m12 m21) - m01(m10 m22 - m12 m20)
\* + m02(m10 m21 - m11 m20) of the matrix; it is 0 when two rows of the
\* matrix are identical and 1 for the rotation by 90 degrees about Z.
C11_DeterminantAsClaimed ==
    pc = "determinant" =>
        /\ Val(result) = determinant_cofactor(locals.m)
        /\ TwoIdenticalRows(locals.m) => Val(result) = Num(0)
        /\ locals.m = RotZ90 => Val(result) = Num(1)

\* the determinant of the matrix is zero
Singular(m) == determinant_cofactor(m) = Num(0)

\* C12: after Matrix::invert on a singular matrix (for one, a matrix with
\* two identical rows) the value returned is the failure, never Ok.
C12_SingularRejected ==
    (pc = "invert" /\ Singular(locals.m)) =>
        /\ result.kind = "Err"
        /\ result.msg = "Matrix cannot be inverted"


(***************************************************************************)
(* algebra.rs                                                              *)
(***************************************************************************)
\* f64::powi for an exponent i >= 0; powi(x, 0) is 1 for every x
RECURSIVE powi(_, _)
powi(x, i) == IF i = 0 THEN Num(1) ELSE Mul(powi(x, i - 1), x)

\* the body of the for loop: ret and i after the coefficients from
\* position i on have been consumed
RECURSIVE evalpoly_loop(_, _, _, _)
evalpoly_loop(val, coeffs, ret, i) ==
    IF i = Len(coeffs)
    THEN ret
    ELSE evalpoly_loop(val, coeffs, Add(ret, Mul(coeffs[i + 1], powi(val, i))), i + 1)

\* the coefficients read highest degree first
evalpoly_descending(val, coeffs) ==
    evalpoly_loop(val, [i \in 1..Len(coeffs) |-> coeffs[Len(coeffs) + 1 - i]], Num(0), 0)

evalpoly(val, coeffs) ==
    evalpoly_loop(val, coeffs, Num(0), 0)

(***************************************************************************)
(* time.rs: a Julian date is d10 tenths of a day plus ms milliseconds,     *)
(* 0 <= ms < 8640000 (a tenth of a day)                                    *)
(***************************************************************************)
TenthDayMs == 86400 * 100

Jd(d10, ms) == [d10 |-> d10 + (ms \div TenthDayMs), ms |-> ms % TenthDayMs]

JdLt(a, b) == a.d10 < b.d10 \/ (a.d10 = b.d10 /\ a.ms < b.ms)

TT_LEAP_SECONDS ==
    << Jd(24414995, 0), Jd(24416835, 0), Jd(24420485, 0), Jd(24424135, 0),
       Jd(24427785, 0), Jd(24431445, 0), Jd(24435095, 0), Jd(24438745, 0),
       Jd(24442395, 0), Jd(24447865, 0), Jd(24451515, 0), Jd(24455165, 0),
       Jd(24462475, 0), Jd(24471615, 0), Jd(24478925, 0), Jd(24482575, 0),
       Jd(24488045, 0), Jd(24491695, 0), Jd(24495345, 0), Jd(24500835, 0),
       Jd(24506305, 0), Jd(24511795, 0), Jd(24537365, 0), Jd(24548325, 0),
       Jd(24561095, 0), Jd(24572045, 0), Jd(24577545, 0) >>

JD_J2000 == Jd(24515450, 0)

\* the while loop of get_leap_seconds from index i on; TT_LEAP_SECONDS[i]
\* of the source is element i + 1 here
RECURSIVE leap_loop(_, _)
leap_loop(jd, i) ==
    IF i < Len(TT_LEAP_SECONDS) /\ JdLt(jd, TT_LEAP_SECONDS[i + 1])
    THEN leap_loop(jd, i + 1)
    ELSE i

get_leap_seconds(jd) == leap_loop(jd, 1) + 10

\* jd + (ls + 32.184) / 86400.0 days: ls seconds and 32184 ms later
jd_utc_to_tt(jd) ==
    LET ls == get_leap_seconds(jd)
    IN  Jd(jd.d10, jd.ms + ls * 1000 + 32184)


(***************************************************************************)
(* geometry.rs: composition, rotation and the Euler-angle matrices         *)
(***************************************************************************)
\* ret.values[i][j] after the loop over k: 0.0 plus the three products
\* a.values[i][k] * b.values[k][j], k = 0, 1, 2, added in that order
ComposeEntry(a, b, i, j) ==
    Add(Add(Add(Num(0), Mul(At(a, i, 0), At(b, 0, j))), Mul(At(a, i, 1), At(b, 1, j))),
        Mul(At(a, i, 2), At(b, 2, j)))

\* the product taken in the other order, b * a
compose_reversed(a, b) ==
    << <<ComposeEntry(b, a, 0, 0), ComposeEntry(b, a, 0, 1), ComposeEntry(b, a, 0, 2)>>,
       <<ComposeEntry(b, a, 1, 0), ComposeEntry(b, a, 1, 1), ComposeEntry(b, a, 1, 2)>>,
       <<ComposeEntry(b, a, 2, 0), ComposeEntry(b, a, 2, 1), ComposeEntry(b, a, 2, 2)>> >>

compose(a, b) ==
    << <<ComposeEntry(a, b, 0, 0), ComposeEntry(a, b, 0, 1), ComposeEntry(a, b, 0, 2)>>,
       <<ComposeEntry(a, b, 1, 0), ComposeEntry(a, b, 1, 1), ComposeEntry(a, b, 1, 2)>>,
       <<ComposeEntry(a, b, 2, 0), ComposeEntry(a, b, 2, 1), ComposeEntry(a, b, 2, 2)>> >>

\* point[i] of the source is element i + 1 here
rotate(m, point) ==
    << Add(Add(Mul(At(m, 0, 0), point[1]), Mul(At(m, 0, 1), point[2])),
           Mul(At(m, 0, 2), point[3])),
       Add(Add(Mul(At(m, 1, 0), point[1]), Mul(At(m, 1, 1), point[2])),
           Mul(At(m, 1, 2), point[3])),
       Add(Add(Mul(At(m, 2, 0), point[1]), Mul(At(m, 2, 1), point[2])),
           Mul(At(m, 2, 2), point[3])) >>

\* An angle (an f64 of radians) is kept as its sine and cosine, a point
\* of the unit circle with rational coordinates, so that sin, cos, the
\* negation and the sum of angles are exact.
UnitAngle(s, c) == [s |-> s, c |-> c]

ZeroAngle == UnitAngle(Num(0), Num(1))

QuarterTurn == UnitAngle(Num(1), Num(0))

\* the angle of the 3-4-5 triangle, about 36.87 degrees
PythAngle == UnitAngle(Frac(3, 5), Frac(4, 5))

sin(a) == a.s

cos(a) == a.c

AngleNeg(a) == UnitAngle(Neg(a.s), a.c)

AngleAdd(a, b) ==
    UnitAngle(Add(Mul(a.s, b.c), Mul(a.c, b.s)), Sub(Mul(a.c, b.c), Mul(a.s, b.s)))

\* k times the angle a, k an integer
RECURSIVE AngleTimes(_, _)
AngleTimes(a, k) ==
    IF k = 0 THEN ZeroAngle
    ELSE IF k < 0 THEN AngleNeg(AngleTimes(a, 0 - k))
    ELSE AngleAdd(AngleTimes(a, k - 1), a)

\* the angle a scaled by the factor f, for the factors -1, 0 and 1 that a
\* cosine takes on multiples of a quarter turn
AngleScale(a, f) ==
    CASE f = Num(1) -> a
      [] f = Num(0) -> ZeroAngle
      [] f = Num(-1) -> AngleNeg(a)

rot_from_angles(a, b, c, r) ==
    LET sx == sin(a)
        cx == cos(a)
        sy == sin(b)
        cy == cos(b)
        sz == sin(c)
        cz == cos(c)
    IN  CASE r = "ZYZ" -> MatrixNew(
              << <<Sub(Mul(Mul(cx, cz), cy), Mul(sx, sz)),
                   Add(Mul(Mul(sx, cz), cy), Mul(cx, sz)),
                   Mul(Neg(sy), cz)>>,
                 <<Sub(Mul(Mul(Neg(cx), cy), sz), Mul(sx, cz)),
                   Add(Mul(Mul(Neg(sx), cy), sz), Mul(cx, cz)),
                   Mul(sy, sz)>>,
                 <<Mul(cx, sy), Mul(sx, sy), cy>> >>)
          [] r = "ZYX" -> MatrixNew(
              << <<Mul(cx, cy), Mul(cy, sx), Neg(sy)>>,
                 <<Sub(Mul(Mul(sz, sy), cx), Mul(cz, sx)),
                   Add(Mul(Mul(sz, sy), sx), Mul(cz, cx)),
                   Mul(sz, cy)>>,
                 <<Add(Mul(Mul(cz, sy), cx), Mul(sz, sx)),
                   Sub(Mul(Mul(cz, sy), sx), Mul(sz, cx)),
                   Mul(cz, cy)>> >>)
          [] r = "XZX" -> MatrixNew(
              << <<cy, Mul(cx, sy), Mul(sx, sy)>>,
                 <<Mul(Neg(sy), cz),
                   Sub(Mul(Mul(cx, cz), cy), Mul(sx, sz)),
                   Add(Mul(Mul(sx, cz), cy), Mul(cx, sz))>>,
                 <<Mul(sy, sz),
                   Sub(Mul(Mul(Neg(cx), cy), sz), Mul(sx, cz)),
                   Add(Mul(Mul(Neg(sx), cy), sz), Mul(cx, cz))>> >>)

(***************************************************************************)
(* chrono::DateTime<Utc>: an instant is a whole number of Julian centuries *)
(* (36525 days) after 2000-01-01 12:00:00 plus a second of the minute      *)
(***************************************************************************)
DateTime(century, second) == [century |-> century, second |-> second]

\* SGP4::julian_day: the Julian date of the instant (jd + jdfrac of jday)
julian_day(time) ==
    Jd(JD_J2000.d10 + 365250 * time.century, 1000 * time.second)

\* whole Julian centuries from J2000 to the Julian date tt
CenturiesSinceJ2000(tt) == (tt.d10 - JD_J2000.d10) \div 365250

(***************************************************************************)
(* kf5: the precession and nutation series.  Each angle advances by a      *)
(* fixed unit angle per century; the second and the leap seconds of tt     *)
(* are below the resolution of the unit angles.                            *)
(***************************************************************************)
precession(tt) ==
    LET centuries == CenturiesSinceJ2000(tt)
    IN  <<AngleTimes(PythAngle, centuries), AngleTimes(QuarterTurn, centuries),
          AngleTimes(QuarterTurn, centuries)>>

nutation(tt) ==
    LET centuries == CenturiesSinceJ2000(tt)
    IN  <<ZeroAngle, AngleTimes(QuarterTurn, centuries), AngleTimes(QuarterTurn, 2 * centuries)>>

(***************************************************************************)
(* frames.rs                                                               *)
(***************************************************************************)
mod_to_gcrf_fk5(tt) ==
    LET prec == precession(tt)
    IN  rot_from_angles(prec[3], AngleNeg(prec[2]), prec[1], "ZYZ")

\* Eq_equinox1982 = c * a.cos() plus the two periodic terms in the Delaunay
\* node angle; the periodic terms stay below 2e-8 rad and are not resolved
\* by the unit angles.  The two rotations are values before they are
\* composed, as in the source.
teme_to_mod(tt, delta_eps, delta_psi) ==
    LET nut == nutation(tt)
        a == nut[1]
        b == AngleAdd(nut[2], delta_eps)
        c == AngleAdd(nut[3], delta_psi)
        obliquity == AngleAdd(a, b)
        Eq_equinox1982 == AngleScale(c, cos(a))
    IN  CHOOSE m \in
            { compose(mod_tod, tod_teme) :
                tod_teme \in {rot_from_angles(AngleNeg(Eq_equinox1982), ZeroAngle,
                                              ZeroAngle, "ZYX")},
                mod_tod \in {rot_from_angles(obliquity, c, AngleNeg(a), "XZX")} } : TRUE

teme_to_gcrf_matrix(self) ==
    LET jd_tt == jd_utc_to_tt(julian_day(self.date_time))
        eps_1980 == ZeroAngle
        psi_1980 == ZeroAngle
    IN  CHOOSE m \in
            { compose(r_MOD_GCRF, r_TEME_MOD) :
                r_TEME_MOD \in {teme_to_mod(jd_tt, eps_1980, psi_1980)},
                r_MOD_GCRF \in {mod_to_gcrf_fk5(jd_tt)} } : TRUE

\* invert().unwrap(): Ok(matrix), or the panic of unwrap on Err
gcrf_to_teme_matrix(self) ==
    CHOOSE r \in
        { IF IsOk(inv) THEN inv ELSE Panic("called Result::unwrap on an Err value") :
            inv \in {invert(m) : m \in {teme_to_gcrf_matrix(self)}} } : TRUE

\* Frame::new of TEME, GCRF and ECEF
FrameNew(kind, date_time) == [kind |-> kind, date_time |-> date_time]

\* Frame::to_gcrf of the three frames; the value is Ok(point)
to_gcrf(self, point) ==
    CASE self.kind = "TEME" ->
            CHOOSE r \in {Ok(rotate(m, point)) : m \in {teme_to_gcrf_matrix(self)}} : TRUE
      [] self.kind = "GCRF" -> Ok(point)
      [] self.kind = "ECEF" -> Ok(point)

\* from_gcrf with an ECEF frame that returns the point as it is
from_gcrf_unshifted(self, point) ==
    CASE self.kind = "TEME" ->
            CHOOSE r \in
                { IF IsOk(m) THEN Ok(rotate(Val(m), point)) ELSE m :
                    m \in {gcrf_to_teme_matrix(self)} } : TRUE
      [] self.kind = "GCRF" -> Ok(point)
      [] self.kind = "ECEF" -> Ok(point)

\* Frame::from_gcrf of the three frames; Ok(point), or the panic of TEME
from_gcrf(self, point) ==
    CASE self.kind = "TEME" ->
            CHOOSE r \in
                { IF IsOk(m) THEN Ok(rotate(Val(m), point)) ELSE m :
                    m \in {gcrf_to_teme_matrix(self)} } : TRUE
      [] self.kind = "GCRF" -> Ok(point)
      [] self.kind = "ECEF" ->
            Ok(<< Add(point[1], Num(self.date_time.second)),
                  Add(point[2], Num(self.date_time.second)),
                  Add(point[3], Num(self.date_time.second)) >>)


(***************************************************************************)
(* geometry.rs: Vector<T> and Point<T>, coordinates tagged with a frame    *)
(***************************************************************************)
\* Vector::from_cartesian: the frame is T::new(Utc::now())
from_cartesian(kind, a, b, c, now) ==
    [vector |-> <<a, b, c>>, frame |-> FrameNew(kind, now)]

from_tuple(kind, vector, now) ==
    from_cartesian(kind, vector[1], vector[2], vector[3], now)

\* new_frame.from_gcrf applied to the vector as it stands
vector_change_frame_direct(self, new_frame) ==
    CHOOSE r \in
        { IF IsOk(coord) THEN Ok([vector |-> Val(coord), frame |-> new_frame]) ELSE coord :
            coord \in {from_gcrf(new_frame, self.vector)} } : TRUE

\* FramedElement::change_frame of Vector<T>
vector_change_frame(self, new_frame) ==
    CHOOSE r \in
        { IF IsOk(coord) THEN Ok([vector |-> Val(coord), frame |-> new_frame]) ELSE coord :
            coord \in {from_gcrf(new_frame, Val(gcrf_coord)) :
                          gcrf_coord \in {to_gcrf(self.frame, self.vector)}} } : TRUE

\* FramedElement::change_frame of Point<T>: the frame is U::new(Utc::now())
point_change_frame(self, new_frame, now) ==
    CHOOSE r \in
        { IF IsOk(coord)
          THEN Ok([coordinates |-> Val(coord), frame |-> FrameNew(new_frame.kind, now)])
          ELSE coord :
            coord \in {from_gcrf(new_frame, Val(icrs_coord)) :
                          icrs_coord \in {to_gcrf(self.frame, self.coordinates)}} } : TRUE

(***************************************************************************)
(* Calls of the Frame operations and of change_frame                       *)
(***************************************************************************)
MaxCentury == 2

Seconds == {0, 30}

DateTimes == {DateTime(c, s) : c \in 0..MaxCentury, s \in Seconds}

FrameKinds == {"TEME", "GCRF", "ECEF"}

Frames == {FrameNew(k, t) : k \in FrameKinds, t \in DateTimes}

Points ==
    { <<Num(0), Num(0), Num(0)>>, <<Num(1), Num(0), Num(0)>>,
      <<Num(0), Num(1), Num(0)>>, <<Num(0), Num(0), Num(1)>>,
      <<Num(1), Num(2), Num(3)>>, <<Num(-6524), Frac(13, 2), Num(0)>> }

\* the readings of the clock: Utc::now()
Clock == {DateTime(MaxCentury, 0), DateTime(1, 30)}

FrameInit ==
    /\ NoRecord
    /\ pc = "frame"
    /\ \E f \in Frames, g \in Frames, p \in Points, now \in Clock :
          locals = [frame |-> f, new_frame |-> g, point |-> p, now |-> now]
    /\ result = NoResult

\* each call takes its arguments by value
ToGcrf ==
    /\ pc = "frame"
    /\ pc' = "to_gcrf"
    /\ \E self \in {locals.frame}, point \in {locals.point} :
          result' = to_gcrf(self, point)
    /\ UNCHANGED <<line1, line2, name_line, locals>>

\* from_gcrf of the same frame on the point that to_gcrf returned
FromGcrf ==
    /\ pc = "to_gcrf"
    /\ pc' = "from_gcrf"
    /\ \E self \in {locals.frame}, point \in {Val(result)} :
          result' = from_gcrf(self, point)
    /\ UNCHANGED <<line1, line2, name_line, locals>>

VectorChangeFrame ==
    /\ pc = "frame"
    /\ pc' = "vector_change_frame"
    /\ \E self \in {[vector |-> locals.point, frame |-> locals.frame]},
          new_frame \in {locals.new_frame} :
          result' = vector_change_frame(self, new_frame)
    /\ UNCHANGED <<line1, line2, name_line, locals>>

PointChangeFrame ==
    /\ pc = "frame"
    /\ pc' = "point_change_frame"
    /\ \E self \in {[coordinates |-> locals.point, frame |-> locals.frame]},
          new_frame \in {locals.new_frame}, now \in {locals.now} :
          result' = point_change_frame(self, new_frame, now)
    /\ UNCHANGED <<line1, line2, name_line, locals>>

FrameNext ==
    \/ ToGcrf
    \/ FromGcrf
    \/ VectorChangeFrame
    \/ PointChangeFrame

FrameSpec == FrameInit /\ [][FrameNext]_vars

\* the largest magnitude among the coordinates of p
MaxAbs(p) ==
    LET m(a, b) == IF a.n * b.d < b.n * a.d THEN b ELSE a
    IN  m(AbsF(p[1]), m(AbsF(p[2]), AbsF(p[3])))

\* |a - b| <= 1e-9 * scale, for scale >= 0
Within(a, b, scale) ==
    LET x == AbsF(Sub(a, b))
        q == Div(scale, x)
    IN  x.n = 0 \/ (scale.n # 0 /\ q.n \div q.d >= 1000000000)

\* the points v and p agree within 1e-9 of the magnitude of p
Close(v, p) == \A i \in 1..3 : Within(v[i], p[i], MaxAbs(p))

\* C13: for a frame of kind GCRF or TEME, built at any time, from_gcrf of
\* the frame applied to to_gcrf of the frame applied to a point p returns
\* p again within 1e-9 relative.
C13_RoundTrip ==
    (pc = "from_gcrf" /\ locals.frame.kind \in {"GCRF", "TEME"}) =>
        /\ IsOk(result)
        /\ Close(Val(result), locals.point)

\* what the claim gives for change_frame: new_frame.from_gcrf applied to
\* self.frame.to_gcrf of the coordinates, or the panic raised on the way
Converted(frame, new_frame, v) ==
    CHOOSE r \in {from_gcrf(new_frame, Val(g)) : g \in {to_gcrf(frame, v)}} : TRUE

\* C19: change_frame on a Vector<T> or a Point<T> with coordinates v, for
\* every source frame T and target frame U, yields the coordinates
\* new_frame.from_gcrf(self.frame.to_gcrf(v)); it panics exactly when that
\* conversion panics.
C19_ChangeFrameIsComposition ==
    /\ pc = "vector_change_frame" =>
          \E want \in {Converted(locals.frame, locals.new_frame, locals.point)} :
              IF IsOk(want)
              THEN IsOk(result) /\ Val(result).vector = Val(want)
              ELSE result = want
    /\ pc = "point_change_frame" =>
          \E want \in {Converted(locals.frame, locals.new_frame, locals.point)} :
              IF IsOk(want)
              THEN IsOk(result) /\ Val(result).coordinates = Val(want)
              ELSE result = want

\* a vector tagged TEME of a later century is converted to an ECEF frame
\* whose second of the minute is not 0: both conversions change it
C19_Witness ==
    /\ pc = "vector_change_frame"
    /\ locals.frame.kind = "TEME"
    /\ locals.frame.date_time.century = 1
    /\ locals.new_frame.kind = "ECEF"
    /\ locals.new_frame.date_time.second = 30
    /\ locals.point = <<Num(1), Num(2), Num(3)>>
    /\ IsOk(result)
    /\ Val(result).vector = <<Num(31), Num(28), Num(33)>>


(***************************************************************************)
(* sgp4.rs: the wrapper of the C propagator.  sgp4init and sgp4 are        *)
(* foreign calls: what they return (ret) and the error code they leave in  *)
(* satrec.error are inputs of the steps that call them.                    *)
(***************************************************************************)
from_code(code) ==
    CASE code = 1 -> [kind |-> "MeanElements", code |-> <<>>]
      [] code = 2 -> [kind |-> "MeanMotion", code |-> <<>>]
      [] code = 3 -> [kind |-> "PertElements", code |-> <<>>]
      [] code = 4 -> [kind |-> "SemiLatus", code |-> <<>>]
      [] code = 5 -> [kind |-> "Epoch", code |-> <<>>]
      [] code = 6 -> [kind |-> "Decayed", code |-> <<>>]
      [] OTHER -> [kind |-> "UnknownError", code |-> <<code>>]

\* impl fmt::Display for SGP4Error
Display(e) ==
    CASE e.kind = "MeanElements" -> "Mean elements error"
      [] e.kind = "MeanMotion" -> "Mean motion error"
      [] e.kind = "PertElements" -> "Pert elements error"
      [] e.kind = "SemiLatus" -> "Semi Latus error"
      [] e.kind = "Epoch" -> "Epoch error"
      [] e.kind = "Decayed" -> "Decayed error"
      [] e.kind = "UnknownError" -> "Unknown error " \o ToString(e.code[1])

\* Err(e) of a Result<_, SGP4Error>
ErrOf(e) == [kind |-> "Err", val |-> <<e>>, msg |-> ""]

\* SGP4::new after sgp4init has returned ret and left error in satrec
SGP4_new(ret, error) ==
    IF ret = 0 THEN ErrOf(from_code(error)) ELSE Ok("SGP4")

\* SGP4::compute after sgp4 has returned ret, the vectors r and v, and
\* left error in satrec
SGP4_compute(ret, error, r, v, time) ==
    IF ret = 0
    THEN ErrOf(from_code(error))
    ELSE Ok([position |-> r, velocity |-> v, time |-> time])

(***************************************************************************)
(* tle.rs: TLE::observation_at(obs, time), on the TLE of the ISS record    *)
(***************************************************************************)
\* the Err arm of both matches, with the text of the error itself
observation_error_verbose(e) == Err(Display(e))

\* the Err arm of both matches: return Err(String::from(...))
observation_error(e) == Err("Cannot compute satellite position")

\* a match that goes on to the next step whatever the propagator returned
AfterMatchLenient(r, next) == next

\* where observation_at goes after `match r { Ok(..) => .., Err(e) => return }`
AfterMatch(r, next) == IF IsOk(r) THEN next ELSE "done"

\* an Observation with the two vectors in each other's place
MakeObservationSwapped(time, obs, position, speed) ==
    [time |-> time, observer |-> obs, position |-> speed, speed |-> position,
     brightness |-> Num(0)]

\* Observation { time, observer: *obs, position, speed, brightness: 0f64 },
\* position and speed being the vectors after change_frame(GCRF::new(time))
MakeObservation(time, obs, position, speed) ==
    [time |-> time, observer |-> obs, position |-> position, speed |-> speed,
     brightness |-> Num(0)]

MaxErrorCode == 7

ErrorCodes == 0..MaxErrorCode

\* Observer { coordinates: Coordinates { lat, lon } }
Observers == {[lat |-> Num(0), lon |-> Num(0)], [lat |-> Frac(101, 2), lon |-> Num(4)]}

\* the vectors that sgp4 writes to r and v
PropagatorVectors ==
    { <<Num(-6524), Frac(13, 2), Num(0)>>, <<Num(1), Num(2), Num(3)>> }

\* a is not later than b
NotLater(a, b) ==
    a.century < b.century \/ (a.century = b.century /\ a.second <= b.second)

ObservationInit ==
    /\ line1 = Base1
    /\ line2 = Base2
    /\ name_line = BaseName
    /\ pc = "sgp4_new"
    /\ \E time \in DateTimes, obs \in Observers :
          locals = [time |-> time, obs |-> obs, calls |-> <<>>, stdout |-> <<>>,
                    sgp4 |-> <<>>, res |-> <<>>, pos_vect |-> <<>>, speed_vect |-> <<>>]
    /\ result = NoResult

\* let sgp4 = match SGP4::new(...) { Ok(s) => s, Err(e) => { println!; return Err } }
Sgp4New ==
    /\ pc = "sgp4_new"
    /\ \E ret \in {0, 1}, error \in ErrorCodes :
          \E r \in {SGP4_new(ret, error)} :
              /\ locals' = [locals EXCEPT
                    !.calls = Append(@, [fn |-> "sgp4init", ret |-> ret]),
                    !.sgp4 = <<r>>,
                    !.stdout = IF IsOk(r) THEN @ ELSE Append(@, Display(Val(r)))]
              /\ pc' = AfterMatch(r, "compute")
              /\ result' = IF IsOk(r) THEN result ELSE observation_error(Val(r))
    /\ UNCHANGED <<line1, line2, name_line>>

\* let res = match sgp4.compute(time) { Ok(r) => r, Err(e) => { println!; return Err } }
Compute ==
    /\ pc = "compute"
    /\ \E ret \in {0, 1}, error \in ErrorCodes, r \in PropagatorVectors,
          v \in PropagatorVectors :
          \E res \in {SGP4_compute(ret, error, r, v, locals.time)} :
              /\ locals' = [locals EXCEPT
                    !.calls = Append(@, [fn |-> "sgp4", ret |-> ret]),
                    !.res = <<res>>,
                    !.stdout = IF IsOk(res) THEN @ ELSE Append(@, Display(Val(res)))]
              /\ pc' = AfterMatch(res, "from_tuple")
              /\ result' = IF IsOk(res) THEN result ELSE observation_error(Val(res))
    /\ UNCHANGED <<line1, line2, name_line>>

\* pos_vect and speed_vect: Vector::<TEME>::from_tuple reads the clock, once
\* for each vector
FromTuple ==
    /\ pc = "from_tuple"
    /\ locals.res # <<>>
    /\ IsOk(locals.res[1])
    /\ \E now1 \in DateTimes, now2 \in DateTimes :
          /\ NotLater(now1, now2)
          /\ locals' = [locals EXCEPT
                !.pos_vect = <<from_tuple("TEME", Val(locals.res[1]).position, now1)>>,
                !.speed_vect = <<from_tuple("TEME", Val(locals.res[1]).velocity, now2)>>]
    /\ pc' = "observation"
    /\ UNCHANGED <<line1, line2, name_line, result>>

\* Ok(Observation { .. }) with both vectors changed to GCRF::new(time)
ObservationStep ==
    /\ pc = "observation"
    /\ \E pos_vect \in {locals.pos_vect[1]}, speed_vect \in {locals.speed_vect[1]},
          time \in {locals.time} :
          \E position \in {vector_change_frame(pos_vect, FrameNew("GCRF", time))},
             speed \in {vector_change_frame(speed_vect, FrameNew("GCRF", time))} :
              result' = IF IsOk(position) /\ IsOk(speed)
                        THEN Ok(MakeObservation(time, locals.obs, Val(position), Val(speed)))
                        ELSE IF IsOk(position) THEN speed ELSE position
    /\ pc' = "done"
    /\ UNCHANGED <<line1, line2, name_line, locals>>

ObservationNext ==
    \/ Sgp4New
    \/ Compute
    \/ FromTuple
    \/ ObservationStep

ObservationSpec == ObservationInit /\ [][ObservationNext]_vars

\* SGP4::new returned Err
InitFailed == locals.sgp4 # <<>> /\ ~IsOk(locals.sgp4[1])

\* SGP4::compute returned Err
ComputeFailed == locals.res # <<>> /\ ~IsOk(locals.res[1])

\* the propagator was asked for a position
ComputeInvoked == \E i \in 1..Len(locals.calls) : locals.calls[i].fn = "sgp4"

\* C14: in observation_at, once SGP4::new has failed, with whatever error
\* kind, compute is never invoked and the call has returned a failure,
\* never an Observation; once compute has failed the call has returned a
\* failure as well, which carries no position and no velocity.
C14_FailureStopsPipeline ==
    /\ InitFailed => (~ComputeInvoked /\ pc = "done" /\ result.kind = "Err")
    /\ ComputeFailed => (pc = "done" /\ result.kind = "Err")
    /\ result.kind = "Err" => result.val = <<>>

\* the initialisation failed with Decayed and the call is over
C14_Witness ==
    /\ InitFailed
    /\ Val(locals.sgp4[1]).kind = "Decayed"
    /\ locals.calls = <<[fn |-> "sgp4init", ret |-> 0]>>
    /\ pc = "done"
    /\ result.kind = "Err"

\* C15: every failure that observation_at returns is the one value with the
\* text "Cannot compute satellite position", whichever SGP4Error kind the
\* propagator reported and whichever of its two steps failed.
C15_GenericFailure ==
    result.kind = "Err" => result = Err("Cannot compute satellite position")

\* compute failed with an error code that has no kind of its own, after an
\* initialisation that succeeded
C15_Witness ==
    /\ ComputeFailed
    /\ Val(locals.res[1]) = [kind |-> "UnknownError", code |-> <<7>>]
    /\ IsOk(locals.sgp4[1])
    /\ pc = "done"
    /\ result.kind = "Err"

\* both steps of the propagator succeeded
Propagated == locals.sgp4 # <<>> /\ IsOk(locals.sgp4[1]) /\ locals.res # <<>> /\ IsOk(locals.res[1])

\* v tagged with the TEME frame tagged, converted with to_gcrf of that frame
\* and then with from_gcrf of GCRF
TemeToGcrf(tagged, v) ==
    CHOOSE r \in {from_gcrf(FrameNew("GCRF", locals.time), Val(g)) :
                    g \in {to_gcrf(tagged, v)}} : TRUE

\* C16: when both propagator steps have succeeded, observation_at returns
\* an Observation whose time is the query time, whose brightness is 0,
\* whose observer is the observer given, and whose position and speed are
\* the propagator's vectors, tagged TEME and converted to GCRF by to_gcrf
\* of the TEME frame followed by from_gcrf of GCRF.
C16_ObservationAsClaimed ==
    (pc = "done" /\ Propagated) =>
        /\ IsOk(result)
        /\ Val(result).time = locals.time
        /\ Val(result).brightness = Num(0)
        /\ Val(result).observer = locals.obs
        /\ locals.pos_vect[1].frame.kind = "TEME"
        /\ locals.pos_vect[1].vector = Val(locals.res[1]).position
        /\ locals.speed_vect[1].frame.kind = "TEME"
        /\ locals.speed_vect[1].vector = Val(locals.res[1]).velocity
        /\ Val(result).position.frame = FrameNew("GCRF", locals.time)
        /\ Val(result).position.vector
              = Val(TemeToGcrf(locals.pos_vect[1].frame, Val(locals.res[1]).position))
        /\ Val(result).speed.frame = FrameNew("GCRF", locals.time)
        /\ Val(result).speed.vector
              = Val(TemeToGcrf(locals.speed_vect[1].frame, Val(locals.res[1]).velocity))

\* an Observation is returned whose position and speed differ from each
\* other and from the vectors of the propagator
C16_Witness ==
    /\ pc = "done"
    /\ Propagated
    /\ IsOk(result)
    /\ Val(locals.res[1]).position = <<Num(1), Num(2), Num(3)>>
    /\ Val(locals.res[1]).velocity = <<Num(-6524), Frac(13, 2), Num(0)>>
    /\ Val(result).position.vector = <<Num(1), Num(-2), Num(3)>>
    /\ Val(result).speed.vector # Val(locals.res[1]).velocity
    /\ locals.obs.lon = Num(4)

\* C17: the rotation that observation_at applies to the propagator's
\* position and velocity is the TEME to GCRF rotation of the query time,
\* whatever the clock read during the call.
C17_RotationOfQueryTime ==
    (pc = "done" /\ Propagated) =>
        /\ IsOk(result)
        /\ Val(result).position.vector
              = Val(TemeToGcrf(FrameNew("TEME", locals.time), Val(locals.res[1]).position))
        /\ Val(result).speed.vector
              = Val(TemeToGcrf(FrameNew("TEME", locals.time), Val(locals.res[1]).velocity))


(***************************************************************************)
(* time.rs: get_leap_seconds and jd_utc_to_tt called on Julian dates at    *)
(* and around the entries of TT_LEAP_SECONDS                               *)
(***************************************************************************)
MaxTenths == 1

\* jd: f64, here every table entry, the millisecond before it, and the
\* dates up to MaxTenths tenths of a day around both
JulianDates ==
    { Jd(TT_LEAP_SECONDS[i].d10 + k, ms) :
        i \in 1..Len(TT_LEAP_SECONDS), k \in (-MaxTenths)..MaxTenths, ms \in {-1, 0} }

TimeInit ==
    /\ NoRecord
    /\ pc = "time"
    /\ \E jd \in JulianDates : locals = [jd |-> jd]
    /\ result = NoResult

GetLeapSeconds ==
    /\ pc = "time"
    /\ pc' = "get_leap_seconds"
    /\ result' = Ok(get_leap_seconds(locals.jd))
    /\ UNCHANGED <<line1, line2, name_line, locals>>

JdUtcToTt ==
    /\ pc = "time"
    /\ pc' = "jd_utc_to_tt"
    /\ result' = Ok(jd_utc_to_tt(locals.jd))
    /\ UNCHANGED <<line1, line2, name_line, locals>>

TimeNext ==
    \/ GetLeapSeconds
    \/ JdUtcToTt

TimeSpec == TimeInit /\ [][TimeNext]_vars

\* the number of table entries at or before jd
LeapSecondsAtOrBefore(jd) ==
    Cardinality({i \in 1..Len(TT_LEAP_SECONDS) : ~JdLt(jd, TT_LEAP_SECONDS[i])})

\* C18: get_leap_seconds(jd) is 10 plus the number of entries of the
\* 27-entry table that are at or before jd, and jd_utc_to_tt(jd) is jd
\* plus get_leap_seconds(jd) + 32.184 seconds.
C18_LeapSecondsAsClaimed ==
    /\ pc = "get_leap_seconds" =>
          result = Ok(10 + LeapSecondsAtOrBefore(locals.jd))
    /\ pc = "jd_utc_to_tt" =>
          result = Ok(Jd(locals.jd.d10,
                         locals.jd.ms + get_leap_seconds(locals.jd) * 1000 + 32184))

(***************************************************************************)
(* algebra.rs: evalpoly called on coefficient lists of every length up to  *)
(* MaxCoeffs                                                               *)
(***************************************************************************)
MaxCoeffs == 3

\* val: f64
PolyValues == {Num(0), Num(1), Num(-1), Num(2), Frac(1, 2)}

\* the entries of coeffs: Vec<f64>
Coefficients == {Num(0), Num(1), Num(-2), Frac(3, 2)}

CoefficientLists == UNION {[1..n -> Coefficients] : n \in 0..MaxCoeffs}

PolyInit ==
    /\ NoRecord
    /\ pc = "poly"
    /\ \E val \in PolyValues, coeffs \in CoefficientLists :
          locals = [val |-> val, coeffs |-> coeffs]
    /\ result = NoResult

Evalpoly ==
    /\ pc = "poly"
    /\ pc' = "evalpoly"
    /\ result' = Ok(evalpoly(locals.val, locals.coeffs))
    /\ UNCHANGED <<line1, line2, name_line, locals>>

PolyNext == Evalpoly

PolySpec == PolyInit /\ [][PolyNext]_vars

\* c[1] + x * (c[2] + x * (c[3] + ...)): the sum over i of c[i + 1] * x^i
RECURSIVE PowerSum(_, _)
PowerSum(x, c) ==
    IF c = <<>> THEN Num(0) ELSE Add(Head(c), Mul(x, PowerSum(x, Tail(c))))

\* C20: evalpoly(x, coeffs) is the sum over i of coeffs[i] * x^i, the
\* coefficients being ordered lowest degree first; it is 0 for the empty
\* list and coeffs[0] for x = 0.
C20_EvalpolyIsPowerSum ==
    pc = "evalpoly" =>
        /\ result = Ok(PowerSum(locals.val, locals.coeffs))
        /\ locals.coeffs = <<>> => result = Ok(Num(0))
        /\ (locals.val = Num(0) /\ locals.coeffs # <<>>) => result = Ok(locals.coeffs[1])

\* 1 - 2 * (1/2) + (3/2) * (1/2)^2 = 3/8
C20_Witness ==
    /\ pc = "evalpoly"
    /\ locals.val = Frac(1, 2)
    /\ locals.coeffs = <<Num(1), Num(-2), Frac(3, 2)>>
    /\ result = Ok(Frac(3, 8))

(***************************************************************************)
(* Calls of Matrix::compose followed by rotate, and of teme_to_gcrf_matrix *)
(***************************************************************************)
\* the matrices given to compose: two rotations, a shear, a scaling and a
\* matrix that cannot be inverted
ComposeOperands ==
    { rot_from_angles(QuarterTurn, ZeroAngle, ZeroAngle, "ZYX"),
      rot_from_angles(PythAngle, QuarterTurn, ZeroAngle, "ZYZ"),
      MatrixNew(<< <<Num(1), Num(1), Num(0)>>, <<Num(0), Num(1), Num(0)>>,
                   <<Num(0), Num(0), Num(1)>> >>),
      MatrixNew(<< <<Num(1), Num(0), Num(0)>>, <<Num(0), Num(2), Num(0)>>,
                   <<Num(0), Num(0), Frac(-1, 2)>> >>),
      MatrixNew(<< <<Num(1), Num(2), Num(3)>>, <<Num(0), Num(0), Num(0)>>,
                   <<Num(-1), Num(0), Num(1)>> >>) }

ComposeInit ==
    /\ NoRecord
    /\ pc = "operands"
    /\ \E a \in ComposeOperands, b \in ComposeOperands, p \in Points, t \in DateTimes :
          locals = [a |-> a, b |-> b, point |-> p, date_time |-> t, ab |-> <<>>]
    /\ result = NoResult

\* Matrix::compose(a, b)
Compose ==
    /\ pc = "operands"
    /\ pc' = "compose"
    /\ \E a \in {locals.a}, b \in {locals.b} :
          locals' = [locals EXCEPT !.ab = <<compose(a, b)>>]
    /\ UNCHANGED <<line1, line2, name_line, result>>

\* rotate of the composed matrix
RotateComposed ==
    /\ pc = "compose"
    /\ pc' = "rotate"
    /\ \E m \in {locals.ab[1]}, point \in {locals.point} :
          result' = Ok(rotate(m, point))
    /\ UNCHANGED <<line1, line2, name_line, locals>>

\* teme_to_gcrf_matrix of the TEME frame of date_time
TemeToGcrfMatrix ==
    /\ pc = "operands"
    /\ pc' = "teme_to_gcrf_matrix"
    /\ \E self \in {FrameNew("TEME", locals.date_time)} :
          result' = Ok(teme_to_gcrf_matrix(self))
    /\ UNCHANGED <<line1, line2, name_line, locals>>

ComposeNext ==
    \/ Compose
    \/ RotateComposed
    \/ TemeToGcrfMatrix

ComposeSpec == ComposeInit /\ [][ComposeNext]_vars

\* p rotated by second after it was rotated by first
RotatedTwice(first, second, p) ==
    CHOOSE r \in {rotate(second, q) : q \in {rotate(first, p)}} : TRUE

\* the Terrestrial-Time Julian date of the call's date_time
TtOfCall == jd_utc_to_tt(julian_day(locals.date_time))

\* C21: compose(a, b) is the matrix product a * b: rotating a point by
\* compose(a, b) is rotating it by b and then by a; the matrix of
\* teme_to_gcrf_matrix rotates by the TEME to MOD rotation first and by the
\* MOD to GCRF rotation second.
C21_ComposeAppliesRightFirst ==
    /\ pc = "rotate" =>
          result = Ok(RotatedTwice(locals.b, locals.a, locals.point))
    /\ pc = "teme_to_gcrf_matrix" =>
          \A p \in Points :
              rotate(Val(result), p)
                = RotatedTwice(teme_to_mod(TtOfCall, ZeroAngle, ZeroAngle),
                               mod_to_gcrf_fk5(TtOfCall), p)

\* two operands for which the order matters have been composed and applied
C21_Witness ==
    /\ pc = "rotate"
    /\ locals.point = <<Num(1), Num(2), Num(3)>>
    /\ RotatedTwice(locals.b, locals.a, locals.point)
         # RotatedTwice(locals.a, locals.b, locals.point)
    /\ result = Ok(RotatedTwice(locals.b, locals.a, locals.point))

\* the dot product of rows i and j of m
RowDot(m, i, j) ==
    Add(Add(Mul(At(m, i, 0), At(m, j, 0)), Mul(At(m, i, 1), At(m, j, 1))),
        Mul(At(m, i, 2), At(m, j, 2)))

\* the rows of m have length 1 and are orthogonal to each other
Orthonormal(m) ==
    \A i \in 0..2, j \in 0..2 : RowDot(m, i, j) = IF i = j THEN Num(1) ELSE Num(0)

Identity ==
    MatrixNew(<< <<Num(1), Num(0), Num(0)>>, <<Num(0), Num(1), Num(0)>>,
                 <<Num(0), Num(0), Num(1)>> >>)

\* C22: for every matrix M with orthonormal rows invert(M) succeeds and is
\* the inverse of M: compose(invert(M), M) is the identity matrix and
\* invert(M).rotate(M.rotate(p)) is p for every point p.
C22_InvertOfOrthonormal ==
    (pc = "invert" /\ Orthonormal(locals.m)) =>
        /\ IsOk(result)
        /\ compose(Val(result), locals.m) = Identity
        /\ \A p \in Points : RotatedTwice(locals.m, Val(result), p) = p

\* p with s added to each of its three components
Shifted(p, s) == <<Add(p[1], Num(s)), Add(p[2], Num(s)), Add(p[3], Num(s))>>

\* C23: for an ECEF frame constructed at time t, to_gcrf returns the point
\* unchanged and from_gcrf returns it with the seconds-of-minute of t added
\* to each component, so that from_gcrf(to_gcrf(p)) is p exactly when the
\* seconds-of-minute of t is 0.
C23_EcefStub ==
    locals.frame.kind = "ECEF" =>
        /\ pc = "to_gcrf" => result = Ok(locals.point)
        /\ pc = "from_gcrf" =>
              /\ result = Ok(Shifted(locals.point, locals.frame.date_time.second))
              /\ Val(result) = locals.point <=> locals.frame.date_time.second = 0

\* the round trip through an ECEF frame built 30 seconds into a minute
C23_Witness ==
    /\ pc = "from_gcrf"
    /\ locals.frame = FrameNew("ECEF", DateTime(1, 30))
    /\ locals.point = <<Num(1), Num(2), Num(3)>>
    /\ result = Ok(<<Num(31), Num(32), Num(33)>>)


(***************************************************************************)
(* frames.rs, teme_to_mod: the Delaunay node angle of the Moon.  An f64 of *)
(* degrees is kept as whole + part, whole an integer and 0 <= part < 1,    *)
(* because the numerators of eight-decimal coefficients times hundreds of  *)
(* degrees do not fit the integers of TLC.                                 *)
(***************************************************************************)
WholeAndPart(whole, part) ==
    [whole |-> whole + (part.n \div part.d),
     part |-> Sub(part, Num(part.n \div part.d))]

\* r = 360.0 is a whole number of degrees
FullTurn == 360

\* evalpoly(t_tt, vec![125.04452222, -5.0 * r - 134.1362608, 0.0020708, 2.2e-6]):
\* evalpoly is linear in the coefficients, so the whole degrees 125 and
\* -5 * r - 134 and the decimals are summed apart; t_tt is a multiple of
\* half a century, for which the whole degrees stay whole
delaunay_polynomial(t_tt) ==
    LET whole == evalpoly(t_tt, <<Num(125), Num(-5 * FullTurn - 134), Num(0), Num(0)>>)
        part == evalpoly(t_tt, <<Frac(4452222, 100000000), Frac(-1362608, 10000000),
                                 Frac(20708, 10000000), Frac(22, 10000000)>>)
    IN  WholeAndPart(whole.n, part)

\* x % turn of f64: the remainder of the division truncated towards zero,
\* which has the sign of x
rem(x, turn) ==
    IF x.whole >= 0
    THEN [whole |-> x.whole % turn, part |-> x.part]
    ELSE IF x.part.n = 0
         THEN [whole |-> -((-x.whole) % turn), part |-> x.part]
         ELSE [whole |-> -((-x.whole - 1) % turn) - 1, part |-> x.part]

\* delaunay % 360.0, before the conversion to radians
delaunay_reduced(t_tt) == rem(delaunay_polynomial(t_tt), FullTurn)

MaxHalfCenturies == 20

\* t_tt = (tt - JD_J2000) / 36525.0 for tt a whole number of half centuries
\* before or after J2000
CenturyFractions == {Frac(k, 2) : k \in (-MaxHalfCenturies)..MaxHalfCenturies}

DelaunayInit ==
    /\ NoRecord
    /\ pc = "t_tt"
    /\ \E t \in CenturyFractions : locals = [t_tt |-> t]
    /\ result = NoResult

\* let mut delaunay = evalpoly(..)
DelaunayPolynomial ==
    /\ pc = "t_tt"
    /\ pc' = "evalpoly"
    /\ result' = Ok(delaunay_polynomial(locals.t_tt))
    /\ UNCHANGED <<line1, line2, name_line, locals>>

\* delaunay = (delaunay % 360.0) ..
DelaunayReduce ==
    /\ pc = "evalpoly"
    /\ pc' = "reduced"
    /\ result' = Ok(rem(Val(result), FullTurn))
    /\ UNCHANGED <<line1, line2, name_line, locals>>

DelaunayNext ==
    \/ DelaunayPolynomial
    \/ DelaunayReduce

DelaunaySpec == DelaunayInit /\ [][DelaunayNext]_vars

\* C24: in teme_to_mod, for every Terrestrial-Time Julian date, before and
\* after J2000, the Delaunay node angle after the reduction modulo 360
\* degrees lies in [0, 360) degrees; it is never negative.
C24_DelaunayInFirstTurn ==
    pc = "reduced" => (0 <= Val(result).whole /\ Val(result).whole < FullTurn)


(***************************************************************************)
(* from_lines on more records: element lines cut short, and unsigned       *)
(* fields written with a minus sign                                        *)
(***************************************************************************)
\* the lengths the element lines are cut to; 69 is the whole line
LineLengths == {0, 1, 68, 69}

\* the lengths the name line is cut to
NameLengths == {0, Len(BaseName)}

\* a minus sign in the columns of the satellite number, the launch year,
\* the launch number, the element-set number and the revolution count
SignedEdits ==
    { Edit(1, 2, "-2554"), Edit(1, 2, "   -1"), Edit(1, 9, "-1"), Edit(1, 11, "-67"),
      Edit(1, 64, "-999"), Edit(2, 63, "-3115"), Edit(2, 63, "   -0") }

\* from_lines(&line1[..n1], &line2[..n2], &name_line[..n0])
TruncatedCall(n1, n2, n0) ==
    /\ line1 = SubSeq(Base1, 1, n1)
    /\ line2 = SubSeq(Base2, 1, n2)
    /\ name_line = SubSeq(BaseName, 1, n0)
    /\ pc = "checksum1"
    /\ locals = [f \in Fields |-> <<>>]
    /\ result = NoResult

RecordInit ==
    \/ Init
    \/ \E e \in SignedEdits : InitCall({e}, 0, 0)
    \/ \E n1 \in LineLengths, n2 \in LineLengths, n0 \in NameLengths :
          TruncatedCall(n1, n2, n0)

RecordSpec == RecordInit /\ [][Next]_vars

\* C27: for any three byte strings, element lines shorter than 69 bytes,
\* empty lines and non-numeric fields included, from_lines returns Ok(TLE)
\* or an Err value; it never aborts with an out-of-range slice access or
\* an unwrap on a failed parse.
C27_NeverAborts ==
    /\ result.kind \in {"none", "Ok", "Err"}
    /\ Done => result.kind \in {"Ok", "Err"}

\* the value of a u32 kept as two 16-bit halves is at most n (n < 2^31)
U32AtMost(u, n) == u.hi <= n \div 65536 /\ u.hi * 65536 + u.lo <= n

\* C28: for every record accepted by from_lines each unsigned integer
\* field is within the range of its columns: satellite number <= 99999,
\* element-set number <= 9999, revolution count <= 99999, launch year <= 99
\* and launch sequence <= 999; a field written with a minus sign is never
\* accepted as a wrapped-around unsigned value.
C28_UnsignedFieldsInRange ==
    Accepted =>
        /\ U32AtMost(Tle.number, 99999)
        /\ Tle.set_number <= 9999
        /\ U32AtMost(Tle.revolutions, 99999)
        /\ Tle.designator.launch_year <= 99
        /\ Tle.designator.launch_number <= 999

\* C29: for every record accepted by from_lines the parsed epoch date lies
\* inside the disambiguated epoch year, 2000 + yy or 1900 + yy: a day of
\* year below 1 or beyond the days of that year is rejected, not rolled
\* into another year.
C29_EpochInsideItsYear ==
    (Accepted /\ TwoDigitYear) =>
        /\ Tle.date.year = EpochYear(YY)
        /\ Tle.date.ordinal \in 1..DaysIn(EpochYear(YY))


(***************************************************************************)
(* TLE::from_lines as one call: what the steps of the source order return  *)
(* on the arguments, the first that is not Ok ending the call              *)
(***************************************************************************)
StepOf(step, l1, l2, nm) ==
    CASE step = "checksum1" -> checksum(l1)
      [] step = "checksum2" -> checksum(l2)
      [] step = "name" -> parse_string(nm)
      [] step = "line_number1" -> LineNumber(l1, 1, "Line 1 number is incorrect")
      [] step = "line_number2" -> LineNumber(l2, 2, "Line 2 number is incorrect")
      [] step = "number" -> DecodeNumber(l1)
      [] step = "class" -> DecodeClass(l1)
      [] step = "designator" -> DecodeDesignator(l1)
      [] step = "date" -> DecodeDate(l1)
      [] step = "ndot" -> DecodeNdot(l1)
      [] step = "ndotdot" -> DecodeNdotdot(l1)
      [] step = "b_star" -> DecodeBStar(l1)
      [] step = "set_number" -> DecodeSetNumber(l1)
      [] step = "inclination" -> DecodeInclination(l2)
      [] step = "right_ascension" -> DecodeRightAscension(l2)
      [] step = "eccentricity" -> DecodeEccentricity(l2)
      [] step = "perigee" -> DecodePerigee(l2)
      [] step = "mean_anomaly" -> DecodeMeanAnomaly(l2)
      [] step = "mean_motion" -> DecodeMeanMotion(l2)
      [] step = "revolutions" -> DecodeRevolutions(l2)
      [] step = "build" -> Ok(TRUE)

\* the returns of the steps as one value, and what from_lines makes of them
FromSteps(s) ==
    IF \A i \in 1..Len(s) : IsOk(s[i])
    THEN Ok([f \in Fields |-> Val(s[StepIndex(f)])])
    ELSE s[CHOOSE i \in 1..Len(s) : ~IsOk(s[i]) /\ \A j \in 1..(i - 1) : IsOk(s[j])]

\* the steps after a failed one do not run: they are Ok(TRUE) here
RECURSIVE StepsFrom(_, _, _, _)
StepsFrom(i, l1, l2, nm) ==
    IF i > Len(StepOrder) THEN <<>>
    ELSE CHOOSE t \in
            { IF IsOk(r) THEN <<r>> \o StepsFrom(i + 1, l1, l2, nm) ELSE <<r>> :
                r \in {StepOf(StepOrder[i], l1, l2, nm)} } : TRUE

from_lines(l1, l2, nm) ==
    CHOOSE t \in {FromSteps(s) : s \in {StepsFrom(1, l1, l2, nm)}} : TRUE


(***************************************************************************)
(* viewer/tle_stream.rs: TleStream.  A text is a sequence of bytes in      *)
(* which LF stands for the line feed and CR for the carriage return.       *)
(***************************************************************************)
LF == "LF"

CR == "CR"

\* str::lines: the text split at each line feed, a carriage return before
\* the line feed dropped, no last line after a final line feed
lines(text) ==
    LET ends == {i \in 1..Len(text) : text[i] = LF}
                \cup (IF text # <<>> /\ text[Len(text)] # LF THEN {Len(text) + 1} ELSE {})
        nth(k) == CHOOSE e \in ends : Cardinality({x \in ends : x < e}) = k - 1
        first(k) == IF k = 1 THEN 1 ELSE nth(k - 1) + 1
        last(k) == IF nth(k) <= Len(text) /\ first(k) < nth(k) /\ text[nth(k) - 1] = CR
                   THEN nth(k) - 2 ELSE nth(k) - 1
    IN  [k \in 1..Cardinality(ends) |-> SubSeq(text, first(k), last(k))]

\* HashMap::new() and HashMap::insert: a map is a function from its keys
EmptyMap == [k \in {} |-> {}]

insert(map, key, value) ==
    [k \in DOMAIN map \cup {key} |-> IF k = key THEN value ELSE map[k]]

\* HashMap::remove: the map without the key
remove(map, key) == [k \in DOMAIN map \ {key} |-> map[k]]

\* TleStream::new(url)
TleStreamNew(url) == [consumed |-> FALSE, url |-> url]

\* the loop `for l in r.lines()` from line k of ls on: Ok(map) after the
\* last line, or the panic of a from_lines call
RECURSIVE read_loop(_, _, _, _, _)
read_loop(ls, k, i, tle_lines, map) ==
    IF k > Len(ls) THEN Ok(map)
    ELSE IF ls[k] = <<>> THEN read_loop(ls, k + 1, i, tle_lines, map)
    ELSE LET filled == [tle_lines EXCEPT ![i + 1] = ls[k]]
         IN  IF (i + 1) % 3 # 0
             THEN read_loop(ls, k + 1, (i + 1) % 3, filled, map)
             ELSE CHOOSE out \in
                    { IF tle_result.kind = "Panic" THEN tle_result
                      ELSE IF IsOk(tle_result)
                      THEN read_loop(ls, k + 1, 0, filled,
                                     insert(map, Val(tle_result).name, Val(tle_result)))
                      ELSE read_loop(ls, k + 1, 0, filled, map) :
                        tle_result \in {from_lines(filled[2], filled[3], filled[1])} } : TRUE

\* a stream that is never consumed
next_forgetful(self, fetch) ==
    IF self.consumed
    THEN [self |-> self, fetched |-> FALSE, ret |-> Err("No update")]
    ELSE IF fetch.kind # "body"
    THEN [self |-> self, fetched |-> TRUE, ret |-> Err(fetch.error)]
    ELSE CHOOSE out \in
            { [self |-> self, fetched |-> TRUE, ret |-> r] :
                r \in {read_loop(lines(fetch.body), 1, 0, <<<<>>, <<>>, <<>>>>, EmptyMap)} } : TRUE

\* a stream that is consumed by every call that fetched, failed or not
next_hasty(self, fetch) ==
    IF self.consumed
    THEN [self |-> self, fetched |-> FALSE, ret |-> Err("No update")]
    ELSE IF fetch.kind # "body"
    THEN [self |-> [self EXCEPT !.consumed = TRUE], fetched |-> TRUE,
          ret |-> Err(fetch.error)]
    ELSE CHOOSE out \in
            { [self |-> [self EXCEPT !.consumed = TRUE], fetched |-> TRUE, ret |-> r] :
                r \in {read_loop(lines(fetch.body), 1, 0, <<<<>>, <<>>, <<>>>>, EmptyMap)} } : TRUE

\* TleStream::next when the fetch goes as fetch says (blocking::get fails,
\* text() fails, or the body is read): the stream after the call, whether
\* blocking::get was called, and what the call returned; ret.kind is Panic
\* when from_lines aborted the call
next(self, fetch) ==
    IF self.consumed
    THEN [self |-> self, fetched |-> FALSE, ret |-> Err("No update")]
    ELSE IF fetch.kind # "body"
    THEN [self |-> self, fetched |-> TRUE, ret |-> Err(fetch.error)]
    ELSE CHOOSE out \in
            { [self |-> IF IsOk(r) THEN [self EXCEPT !.consumed = TRUE] ELSE self,
               fetched |-> TRUE, ret |-> r] :
                r \in {read_loop(lines(fetch.body), 1, 0, <<<<>>, <<>>, <<>>>>, EmptyMap)} } : TRUE


(***************************************************************************)
(* viewer/satellite.rs: update_satellites.  The world maps each live       *)
(* entity to the TLE of its SatelliteInfo; commands take effect when the   *)
(* stage ends.                                                             *)
(***************************************************************************)
\* a satellite without a new TLE stays as it is
update_one_keep(st, entity) ==
    LET name == st.world[entity].name
    IN  IF name \in DOMAIN st.tles
        THEN [st EXCEPT !.world[entity] = st.tles[name], !.tles = remove(st.tles, name)]
        ELSE st

\* the body of `for (entity, mut info) in satellites.iter_mut()`
update_one(st, entity) ==
    LET name == st.world[entity].name
    IN  IF name \in DOMAIN st.tles
        THEN [st EXCEPT !.world[entity] = st.tles[name], !.tles = remove(st.tles, name)]
        ELSE [st EXCEPT !.commands = Append(st.commands, [op |-> "despawn", entity |-> entity])]

\* the loop over the satellites in the order of the query, from position k
RECURSIVE update_loop(_, _, _)
update_loop(order, k, st) ==
    IF k > Len(order) THEN st
    ELSE CHOOSE out \in {update_loop(order, k + 1, s) : s \in {update_one(st, order[k])}} : TRUE

\* `for (_, tle) in tles { sats.push(..) }; commands.spawn_batch(sats)`,
\* the map being iterated in the order keys
spawn_batch(st, keys) ==
    [st EXCEPT !.commands =
        Append(st.commands, [op |-> "spawn_batch", sats |-> [i \in 1..Len(keys) |-> st.tles[keys[i]]]])]

\* the sequences that hold each element of S once
Orders(S) ==
    {s \in [1..Cardinality(S) -> S] : \A i, j \in 1..Cardinality(S) : s[i] = s[j] => i = j}

\* the entities that the commands despawn
Despawned(commands) ==
    {commands[i].entity : i \in {j \in 1..Len(commands) : commands[j].op = "despawn"}}

\* the satellites that the commands spawn, in their order
RECURSIVE Spawned(_)
Spawned(commands) ==
    IF commands = <<>> THEN <<>>
    ELSE (IF Head(commands).op = "spawn_batch" THEN Head(commands).sats ELSE <<>>)
         \o Spawned(Tail(commands))

\* the end of the stage: the despawned entities leave the world and each
\* spawned satellite gets the next free entity
apply_commands(world, commands, free) ==
    LET sats == Spawned(commands)
        kept == DOMAIN world \ Despawned(commands)
    IN  [e \in kept \cup {free + i - 1 : i \in 1..Len(sats)} |->
            IF e \in kept THEN world[e] ELSE sats[e - free + 1]]


(***************************************************************************)
(* The viewer: update_satellites runs once per frame on the TleStream      *)
(* resource and on the satellites of the world, and the commands are       *)
(* applied when the stage ends                                             *)
(***************************************************************************)
\* how many frames run
MaxFrames == 3

\* a record of the source: the name line and the two element lines, with
\* the columns of E overwritten and the checksum bytes k1 and k2 off
RecordOf(name, E, k1, k2) ==
    <<Chars(name), Seal(Apply(Base1, 1, E), k1), Seal(Apply(Base2, 2, E), k2)>>

IssOld == RecordOf("ISS (ZARYA)   ", {}, 0, 0)

IssNew == RecordOf("ISS (ZARYA)", {Edit(2, 63, "31160")}, 0, 0)

IssBad == RecordOf("ISS (ZARYA)", {Edit(2, 63, "31161")}, 0, 1)

NoaaOld == RecordOf("NOAA 19", {Edit(1, 2, "33591"), Edit(2, 2, "33591")}, 0, 0)

NoaaNew ==
    RecordOf("NOAA 19  ", {Edit(1, 2, "33591"), Edit(2, 2, "33591"), Edit(2, 63, "70001")}, 0, 0)

MirOld == RecordOf("MIR", {Edit(1, 2, "16609"), Edit(2, 2, "16609")}, 0, 0)

\* the lines ls, each followed by the line ending eol
RECURSIVE TextOf(_, _)
TextOf(ls, eol) == IF ls = <<>> THEN <<>> ELSE Head(ls) \o eol \o TextOf(Tail(ls), eol)

\* the bodies the source answers with: nothing, one record, two records
\* parted by an empty line and ended by CR LF, a record with a wrong
\* checksum before a good one, a record and the first lines of another with
\* no last line feed, the same name twice, and a page that is no record
Bodies ==
    { <<>>,
      TextOf(IssNew, <<LF>>),
      TextOf(IssNew \o << <<>> >> \o NoaaNew, <<CR, LF>>),
      TextOf(IssBad \o NoaaNew, <<LF>>),
      TextOf(NoaaNew, <<LF>>) \o Chars("ISS (ZARYA)") \o <<LF>> \o IssNew[2],
      TextOf(IssOld \o IssNew, <<LF>>),
      TextOf(<<Chars("<html>"), Chars("404"), Chars("</html>")>>, <<LF>>) }

\* how the fetch of a call goes: blocking::get fails, text() fails, or a
\* body is read
FetchErrors ==
    { [kind |-> "get", error |-> "error sending request"],
      [kind |-> "text", error |-> "error decoding response body"] }

FetchedBodies == {[kind |-> "body", body |-> b] : b \in Bodies}

\* the TLE of a record of the source
TleOf(rec) == Val(from_lines(rec[2], rec[3], rec[1]))

\* the satellites of the world before the first update: none, or the
\* satellites that the application spawned with Satellite::new, two of
\* them with the same name included
Worlds ==
    { <<>>, <<TleOf(IssOld)>>, <<TleOf(IssOld), TleOf(NoaaOld)>>,
      <<TleOf(IssOld), TleOf(IssNew)>>, <<TleOf(MirOld), TleOf(IssOld), TleOf(IssOld)>> }

ViewerInit ==
    /\ NoRecord
    /\ pc = "frame"
    /\ \E w \in Worlds :
          locals = [stream |-> TleStreamNew("url"), world |-> w, before |-> w,
                    commands |-> <<>>, free |-> Len(w) + 1, frames |-> 0, calls |-> <<>>]
    /\ result = NoResult

\* what the call of next made of the stream
CallRecord(self, fetch, out) ==
    [consumed_before |-> self.consumed, fetch |-> fetch.kind,
     error |-> IF fetch.kind = "body" THEN "" ELSE fetch.error,
     fetched |-> out.fetched, kind |-> out.ret.kind, msg |-> out.ret.msg,
     has_map |-> out.ret.val # <<>>, consumed_after |-> out.self.consumed]

\* update_satellites in a frame whose fetch goes as fetch says
UpdateSatellites(fetch) ==
    /\ pc = "frame"
    /\ locals.frames < MaxFrames
    /\ \E out \in {next(locals.stream, fetch)} :
          /\ result' = out.ret
          /\ pc' = IF out.ret.kind = "Panic" THEN "aborted" ELSE "commands"
          /\ \E order \in Orders(DOMAIN locals.world) :
             \E st \in { IF IsOk(out.ret)
                         THEN update_loop(order, 1, [tles |-> Val(out.ret),
                                                     world |-> locals.world,
                                                     commands |-> <<>>])
                         ELSE [tles |-> EmptyMap, world |-> locals.world,
                               commands |-> <<>>] } :
             \E keys \in Orders(DOMAIN st.tles) :
             \E done \in {IF IsOk(out.ret) THEN spawn_batch(st, keys) ELSE st} :
                locals' = [locals EXCEPT
                              !.stream = out.self,
                              !.before = locals.world,
                              !.world = done.world,
                              !.commands = done.commands,
                              !.frames = locals.frames + 1,
                              !.calls = Append(locals.calls,
                                               CallRecord(locals.stream, fetch, out))]
    /\ UNCHANGED <<line1, line2, name_line>>

\* the frame of a stream that is consumed
UpdateNoUpdate ==
    /\ locals.stream.consumed
    /\ UpdateSatellites([kind |-> "body", body |-> <<>>])

\* a frame in which the fetch or the reading of the body fails
UpdateFetchFails ==
    /\ ~locals.stream.consumed
    /\ \E fetch \in FetchErrors : UpdateSatellites(fetch)

\* a frame in which a body is read
UpdateFetched ==
    /\ ~locals.stream.consumed
    /\ \E fetch \in FetchedBodies : UpdateSatellites(fetch)

\* the end of the stage
ApplyCommands ==
    /\ pc = "commands"
    /\ pc' = "frame"
    /\ \E w \in {apply_commands(locals.world, locals.commands, locals.free)} :
          locals' = [locals EXCEPT
                        !.world = w,
                        !.commands = <<>>,
                        !.free = locals.free + Len(Spawned(locals.commands))]
    /\ UNCHANGED <<line1, line2, name_line, result>>

ViewerNext ==
    \/ UpdateNoUpdate
    \/ UpdateFetchFails
    \/ UpdateFetched
    \/ ApplyCommands

ViewerSpec == ViewerInit /\ [][ViewerNext]_vars


\* the calls of next made so far
Calls == locals.calls

\* C25: a TleStream returns results once: after the first call of next
\* that returned Ok with a map, every later call on the same stream returns
\* the "No update" error, fetches nothing and returns no map.
C25_ResultsOnlyOnce ==
    \A i \in 1..Len(Calls), j \in 1..Len(Calls) :
        (i < j /\ Calls[i].kind = "Ok") =>
            /\ Calls[j].kind = "Err"
            /\ Calls[j].msg = "No update"
            /\ ~Calls[j].fetched
            /\ ~Calls[j].has_map

\* a map was returned by the first call and two more calls were made
C25_Witness ==
    /\ Len(Calls) = 3
    /\ Calls[1].kind = "Ok"
    /\ Calls[1].has_map
    /\ Calls[2].msg = "No update"
    /\ Calls[3].msg = "No update"
    /\ result = Err("No update")

\* C30: when blocking::get or text() fails inside next, the call returns
\* that error and leaves consumed false, so that the next call fetches
\* again; only a call that returns Ok makes the stream consumed.
C30_FailedFetchKeepsStream ==
    \A i \in 1..Len(Calls) :
        /\ (Calls[i].fetched /\ Calls[i].fetch # "body") =>
              /\ Calls[i].kind = "Err"
              /\ Calls[i].msg = Calls[i].error
              /\ ~Calls[i].consumed_after
              /\ i < Len(Calls) => Calls[i + 1].fetched
        /\ (~Calls[i].consumed_before /\ Calls[i].consumed_after) => Calls[i].kind = "Ok"
        /\ i = Len(Calls) => locals.stream.consumed = Calls[i].consumed_after

\* get failed, then text() failed, then the body was read
C30_Witness ==
    /\ Len(Calls) = 3
    /\ Calls[1].fetch = "get" /\ Calls[1].msg = "error sending request"
    /\ Calls[2].fetch = "text" /\ Calls[2].msg = "error decoding response body"
    /\ Calls[3].kind = "Ok"
    /\ locals.stream.consumed

\* the stage has ended after an update that got a map from next
Updated == pc = "frame" /\ IsOk(result)

\* the satellites before the update, the map that next returned and the
\* satellites after the update
Before == locals.before

Map == Val(result)

Live == locals.world

\* the satellites of Before that are called name
Named(name) == {e \in DOMAIN Before : Before[e].name = name}

\* the live satellites are those of the map: one for each name
LiveNamesAreMapNames ==
    /\ {Live[e].name : e \in DOMAIN Live} = DOMAIN Map
    /\ \A e, f \in DOMAIN Live : Live[e].name = Live[f].name => e = f

\* one new satellite, with the TLE of the map, for each name of the map
\* that no satellite had
OneSpawnPerUnmatched ==
    /\ \A name \in DOMAIN Map : Named(name) = {} =>
          Cardinality({e \in DOMAIN Live \ DOMAIN Before : Live[e] = Map[name]}) = 1
    /\ Cardinality(DOMAIN Live \ DOMAIN Before)
         = Cardinality({name \in DOMAIN Map : Named(name) = {}})

====
